---------------------------- MODULE Spec2Model ----------------------------
(***************************************************************************)
(* Firmware-version comparator of the Aruba Central reporting scripts      *)
(* (script_firmware_versions.py): version parsing in the simple and the    *)
(* gateway dialect, the same-branch filter and the two maximum selectors.  *)
(*                                                                         *)
(* A Python str is modelled as a sequence of one-character strings, a      *)
(* Python tuple or list as a sequence, and Python's None as the value      *)
(* None below, which is no str, no tuple of integers and no list.          *)
(***************************************************************************)
EXTENDS Integers, Sequences, FiniteSets, TLC

VARIABLES
    version,          \* argument of the two parsers
    current_version,  \* first argument of the filter and the selectors
    versions,         \* second argument: the version catalog
    called,           \* the functions that have returned in this run
    r_tuple,          \* value returned by _version_to_tuple(version)
    r_gw_tuple,       \* value returned by _gateway_version_to_tuple(version)
    r_filtered,       \* value returned by filter_versions_same_branch_higher
    r_max,            \* value returned by max_version_same_branch
    r_gw_max,         \* value returned by max_version_same_branch_gateway
    device_type,      \* argument of get_firmware_versions
    api_versions,     \* answer of GET /firmware/v1/versions, per device type
    r_catalog,        \* outcome of get_firmware_versions(device_type)
    api_status,       \* HTTP status each of the other endpoints answers with
    excel_writable,   \* whether the report file can be written
    pc,               \* the statement of main / collect_datasets to run next
    frames,           \* the DataFrames held by the local variables
    log,              \* the warnings and errors printed so far
    jeux_de_donnees,  \* the dict collect_datasets returned to main
    excel,            \* the sheets export_to_excel wrote
    server_empty,     \* the endpoints whose list holds no record
    gateway_details,  \* the response of /monitoring/v1/gateways/{serial}, per gateway row
    lister,           \* the listing function that runs its page loop
    records,          \* the records the server holds for the listing
    limit,            \* the page size asked for
    offset,           \* the offset of the next page request
    tous,             \* the records accumulated by the page loop
    requested,        \* the offsets requested so far
    page_pc           \* "loop", or how the listing ended

comparatorVars == <<version, current_version, versions,
                    r_tuple, r_gw_tuple, r_filtered, r_max, r_gw_max>>

catalogVars == <<device_type, api_versions, r_catalog>>

listingVars == <<lister, records, limit, offset, tous, requested, page_pc>>

pipelineVars == <<api_status, excel_writable, pc, frames, log,
                  jeux_de_donnees, excel, server_empty,
                  gateway_details, listingVars>>

vars == <<comparatorVars, called, catalogVars, pipelineVars>>

\* nothing asked of the version endpoint yet
NotCalled == <<"not called", <<>>>>

CatalogIdle ==
    /\ device_type = ""
    /\ api_versions = <<>>
    /\ r_catalog = NotCalled

\* no listing runs
ListingIdle ==
    /\ lister = ""
    /\ records = <<>>
    /\ limit = 0
    /\ offset = 0
    /\ tous = <<>>
    /\ requested = <<>>
    /\ page_pc = "idle"

\* the report run is not part of the behaviour
PipelineIdle ==
    /\ server_empty = {}
    /\ gateway_details = <<>>
    /\ ListingIdle
    /\ api_status = <<>>
    /\ excel_writable = TRUE
    /\ pc = "idle"
    /\ frames = <<>>
    /\ log = <<>>
    /\ jeux_de_donnees = NotCalled
    /\ excel = NotCalled

---------------------------------------------------------------------------
(* Bounds of the model *)

\* longest string of the exhaustive part of the parsers' inputs
MaxLen == 5
\* most digit runs in the dotted inputs of the parsers
MaxRuns == 5
\* longest catalog
MaxCat == 2

---------------------------------------------------------------------------
(* Python values *)

None == <<"None">>

DigitChars == {"0", "1", "2", "3", "4", "5", "6", "7", "8", "9"}

\* value of one decimal digit, as int() reads it
DigitVal(c) ==
    CASE c = "0" -> 0 [] c = "1" -> 1 [] c = "2" -> 2 [] c = "3" -> 3
      [] c = "4" -> 4 [] c = "5" -> 5 [] c = "6" -> 6 [] c = "7" -> 7
      [] c = "8" -> 8 [] c = "9" -> 9

\* `not x` of Python for a str, a tuple, a list or None
Falsy(x) == x = None \/ x = <<>>

\* int(num) for a non-empty run of decimal digits (unbounded integers)
RECURSIVE int(_)
int(num) ==
    IF num = <<>> THEN 0
    ELSE 10 * int(SubSeq(num, 1, Len(num) - 1)) + DigitVal(num[Len(num)])

\* re.findall(r"\d+", s) scanning s from position i with the digit run `run`
\* open: the maximal runs of digits, left to right
RECURSIVE FindallFrom(_, _, _)
FindallFrom(s, i, run) ==
    IF i > Len(s)
    THEN IF run = <<>> THEN <<>> ELSE <<run>>
    ELSE IF s[i] \in DigitChars
         THEN FindallFrom(s, i + 1, Append(run, s[i]))
         ELSE (IF run = <<>> THEN <<>> ELSE <<run>>) \o FindallFrom(s, i + 1, <<>>)

re_findall_digits(s) == FindallFrom(s, 1, <<>>)

\* index of the first occurrence of character c in s, 0 when there is none
RECURSIVE str_find(_, _, _)
str_find(s, c, i) ==
    IF i > Len(s) THEN 0
    ELSE IF s[i] = c THEN i ELSE str_find(s, c, i + 1)

\* s.split(sep, 1): one part, or two parts around the first sep
str_split_1(s, sep) ==
    LET k == str_find(s, sep, 1)
    IN IF k = 0 THEN <<s>>
       ELSE <<SubSeq(s, 1, k - 1), SubSeq(s, k + 1, Len(s))>>

\* s.split(sep)[0]: the text before the first sep
str_split_first(s, sep) == str_split_1(s, sep)[1]

\* numbers[:n]
Slice(seq, n) == SubSeq(seq, 1, IF Len(seq) < n THEN Len(seq) ELSE n)

\* while len(values) < length: values.append(0)
RECURSIVE PadZeros(_, _)
PadZeros(values, length) ==
    IF Len(values) < length THEN PadZeros(Append(values, 0), length) ELSE values

\* [int(num) for num in numbers]
IntsOf(numbers) == [k \in 1..Len(numbers) |-> int(numbers[k])]

\* a < b on Python tuples of integers (lexicographic, a proper prefix is less)
RECURSIVE TupleLess(_, _)
TupleLess(a, b) ==
    IF b = <<>> THEN FALSE
    ELSE IF a = <<>> THEN TRUE
    ELSE IF a[1] # b[1] THEN a[1] < b[1]
    ELSE TupleLess(Tail(a), Tail(b))

---------------------------------------------------------------------------
(* script_firmware_versions.py *)

\* default of the parameter `length` of _version_to_tuple
DefaultLength == 4

\* the padding loop left out: fewer than `length` runs give a shorter tuple
_version_to_tuple_nopad(v, length) ==
    IF Falsy(v) THEN None
    ELSE LET numbers == re_findall_digits(v)
         IN IF numbers = <<>> THEN None
            ELSE IntsOf(Slice(numbers, length))

\* a text without digits given the all-zero key, as the gateway parser does
_version_to_tuple_zeros(v, length) ==
    IF Falsy(v) THEN None
    ELSE PadZeros(IntsOf(Slice(re_findall_digits(v), length)), length)

_version_to_tuple(v, length) ==
    IF Falsy(v) THEN None
    ELSE LET numbers == re_findall_digits(v)
         IN IF numbers = <<>> THEN None
            ELSE PadZeros(IntsOf(Slice(numbers, length)), length)

\* the build id after "_" left in the secondary part
_gateway_version_to_tuple_keepbuild(v) ==
    IF Falsy(v) THEN None
    ELSE LET parts == str_split_1(v, "-")
             main_part == IF parts # <<>> THEN parts[1] ELSE v
             secondary_part == IF Len(parts) > 1 THEN parts[2] ELSE <<>>
             main_values == PadZeros(IntsOf(Slice(re_findall_digits(main_part), 4)), 4)
             secondary_values ==
                 PadZeros(IntsOf(Slice(re_findall_digits(secondary_part), 4)), 4)
         IN main_values \o secondary_values

\* the simple dialect's "no digit, no key" rule applied to the main part
_gateway_version_to_tuple_nodigit(v) ==
    IF Falsy(v) THEN None
    ELSE LET parts == str_split_1(v, "-")
             main_part == IF parts # <<>> THEN parts[1] ELSE v
             secondary_part == IF Len(parts) > 1 THEN parts[2] ELSE <<>>
             main_numbers == re_findall_digits(main_part)
             main_values == PadZeros(IntsOf(Slice(main_numbers, 4)), 4)
             secondary_clean == IF secondary_part # <<>>
                                THEN str_split_first(secondary_part, "_")
                                ELSE <<>>
             secondary_values ==
                 PadZeros(IntsOf(Slice(re_findall_digits(secondary_clean), 4)), 4)
         IN IF main_numbers = <<>> THEN None ELSE main_values \o secondary_values

_gateway_version_to_tuple(v) ==
    IF Falsy(v) THEN None
    ELSE LET parts == str_split_1(v, "-")
             main_part == IF parts # <<>> THEN parts[1] ELSE v
             secondary_part == IF Len(parts) > 1 THEN parts[2] ELSE <<>>
             main_values == PadZeros(IntsOf(Slice(re_findall_digits(main_part), 4)), 4)
             secondary_clean == IF secondary_part # <<>>
                                THEN str_split_first(secondary_part, "_")
                                ELSE <<>>
             secondary_values ==
                 PadZeros(IntsOf(Slice(re_findall_digits(secondary_clean), 4)), 4)
         IN main_values \o secondary_values

---------------------------------------------------------------------------
(* The filter and the two selectors *)

\* list.sort(key=...) on a list of <<key, item>> pairs: x put into the sorted
\* list `sorted` behind every pair whose key is not greater (a stable sort)
RECURSIVE InsertSorted(_, _)
InsertSorted(sorted, x) ==
    IF sorted = <<>> THEN <<x>>
    ELSE IF TupleLess(x[1], sorted[Len(sorted)][1])
         THEN Append(InsertSorted(SubSeq(sorted, 1, Len(sorted) - 1), x),
                     sorted[Len(sorted)])
         ELSE Append(sorted, x)

RECURSIVE list_sort(_)
list_sort(pairs) ==
    IF pairs = <<>> THEN <<>>
    ELSE InsertSorted(list_sort(SubSeq(pairs, 1, Len(pairs) - 1)), pairs[Len(pairs)])

\* the loop without its branch test
RECURSIVE FilterLoop_nobranch(_, _, _, _)
FilterLoop_nobranch(vs, i, current_tuple, filtered) ==
    IF i > Len(vs) THEN filtered
    ELSE LET candidate_tuple == _version_to_tuple(vs[i], DefaultLength)
         IN IF Falsy(candidate_tuple)
            THEN FilterLoop_nobranch(vs, i + 1, current_tuple, filtered)
            ELSE IF TupleLess(current_tuple, candidate_tuple)
            THEN FilterLoop_nobranch(vs, i + 1, current_tuple, Append(filtered, vs[i]))
            ELSE FilterLoop_nobranch(vs, i + 1, current_tuple, filtered)

\* the loop of filter_versions_same_branch_higher from entry i on
RECURSIVE FilterLoop(_, _, _, _)
FilterLoop(vs, i, current_tuple, filtered) ==
    IF i > Len(vs) THEN filtered
    ELSE LET candidate_tuple == _version_to_tuple(vs[i], DefaultLength)
         IN IF Falsy(candidate_tuple)
            THEN FilterLoop(vs, i + 1, current_tuple, filtered)
            ELSE IF Slice(candidate_tuple, 2) # Slice(current_tuple, 2)
            THEN FilterLoop(vs, i + 1, current_tuple, filtered)
            ELSE IF TupleLess(current_tuple, candidate_tuple)
            THEN FilterLoop(vs, i + 1, current_tuple, Append(filtered, vs[i]))
            ELSE FilterLoop(vs, i + 1, current_tuple, filtered)

\* key=lambda v: _version_to_tuple(v) or (0, 0, 0, 0)
SortKey(v) ==
    LET t == _version_to_tuple(v, DefaultLength)
    IN IF Falsy(t) THEN <<0, 0, 0, 0>> ELSE t

\* the final sort left out: the kept entries in catalog order
filter_versions_same_branch_higher_unsorted(cur, vs) ==
    LET current_tuple == _version_to_tuple(cur, DefaultLength)
    IN IF Falsy(current_tuple) THEN <<>>
       ELSE FilterLoop(vs, 1, current_tuple, <<>>)

filter_versions_same_branch_higher(cur, vs) ==
    LET current_tuple == _version_to_tuple(cur, DefaultLength)
    IN IF Falsy(current_tuple) THEN <<>>
       ELSE LET filtered == FilterLoop(vs, 1, current_tuple, <<>>)
                sorted == list_sort([k \in 1..Len(filtered) |->
                                        <<SortKey(filtered[k]), filtered[k]>>])
            IN [k \in 1..Len(sorted) |-> sorted[k][2]]

\* filtered[0] returned in place of filtered[-1]
max_version_same_branch_first(cur, vs) ==
    LET filtered == filter_versions_same_branch_higher(cur, vs)
    IN IF filtered = <<>> THEN None ELSE filtered[1]

max_version_same_branch(cur, vs) ==
    LET filtered == filter_versions_same_branch_higher(cur, vs)
    IN IF filtered = <<>> THEN None ELSE filtered[Len(filtered)]

\* current_version in versions
InList(x, vs) == \E k \in 1..Len(vs) : vs[k] = x

\* the loop of max_version_same_branch_gateway from entry i on
RECURSIVE GatewayLoop(_, _, _, _)
GatewayLoop(vs, i, branch, candidates) ==
    IF i > Len(vs) THEN candidates
    ELSE LET candidate_tuple_full == _gateway_version_to_tuple(vs[i])
         IN IF Falsy(candidate_tuple_full)
            THEN GatewayLoop(vs, i + 1, branch, candidates)
            ELSE IF Slice(candidate_tuple_full, 2) # branch
            THEN GatewayLoop(vs, i + 1, branch, candidates)
            ELSE GatewayLoop(vs, i + 1, branch,
                             Append(candidates, <<candidate_tuple_full, vs[i]>>))

\* candidates sorted by the main part of the key alone
max_version_same_branch_gateway_mainonly(cur, vs) ==
    IF Falsy(cur) \/ Falsy(vs) THEN None
    ELSE LET current_tuple_full == _gateway_version_to_tuple(cur)
         IN IF Falsy(current_tuple_full) THEN None
            ELSE LET branch == Slice(current_tuple_full, 2)
                     current_in_list == InList(cur, vs)
                     looped == GatewayLoop(vs, 1, branch, <<>>)
                     candidates ==
                         IF ~current_in_list /\ Slice(current_tuple_full, 2) = branch
                         THEN Append(looped, <<current_tuple_full, cur>>)
                         ELSE looped
                 IN IF candidates = <<>> THEN None
                    ELSE list_sort([k \in 1..Len(candidates) |->
                                  <<Slice(candidates[k][1], 4), candidates[k][2]>>])
                             [Len(candidates)][2]

\* the current version never added to the candidates
max_version_same_branch_gateway_noself(cur, vs) ==
    IF Falsy(cur) \/ Falsy(vs) THEN None
    ELSE LET current_tuple_full == _gateway_version_to_tuple(cur)
         IN IF Falsy(current_tuple_full) THEN None
            ELSE LET branch == Slice(current_tuple_full, 2)
                     current_in_list == InList(cur, vs)
                     looped == GatewayLoop(vs, 1, branch, <<>>)
                     candidates ==
                         looped
                 IN IF candidates = <<>> THEN None
                    ELSE list_sort(candidates)[Len(candidates)][2]

\* as in the simple dialect, nothing returned unless it is newer than current
max_version_same_branch_gateway_strict(cur, vs) ==
    IF Falsy(cur) \/ Falsy(vs) THEN None
    ELSE LET current_tuple_full == _gateway_version_to_tuple(cur)
         IN IF Falsy(current_tuple_full) THEN None
            ELSE LET branch == Slice(current_tuple_full, 2)
                     current_in_list == InList(cur, vs)
                     looped == GatewayLoop(vs, 1, branch, <<>>)
                     candidates ==
                         IF ~current_in_list /\ Slice(current_tuple_full, 2) = branch
                         THEN Append(looped, <<current_tuple_full, cur>>)
                         ELSE looped
                     best == list_sort(candidates)[Len(candidates)]
                 IN IF candidates = <<>> THEN None
                    ELSE IF TupleLess(current_tuple_full, best[1]) THEN best[2]
                    ELSE None

\* among equal keys the first candidate returned, not the last
max_version_same_branch_gateway_firsttie(cur, vs) ==
    IF Falsy(cur) \/ Falsy(vs) THEN None
    ELSE LET current_tuple_full == _gateway_version_to_tuple(cur)
         IN IF Falsy(current_tuple_full) THEN None
            ELSE LET branch == Slice(current_tuple_full, 2)
                     current_in_list == InList(cur, vs)
                     looped == GatewayLoop(vs, 1, branch, <<>>)
                     candidates ==
                         IF ~current_in_list /\ Slice(current_tuple_full, 2) = branch
                         THEN Append(looped, <<current_tuple_full, cur>>)
                         ELSE looped
                     top == list_sort(candidates)[Len(candidates)][1]
                     first == CHOOSE k \in 1..Len(candidates) :
                                  /\ candidates[k][1] = top
                                  /\ \A h \in 1..(k - 1) : candidates[h][1] # top
                 IN IF candidates = <<>> THEN None
                    ELSE candidates[first][2]

\* the first candidate of the sorted list returned, not the last
max_version_same_branch_gateway_oldest(cur, vs) ==
    IF Falsy(cur) \/ Falsy(vs) THEN None
    ELSE LET current_tuple_full == _gateway_version_to_tuple(cur)
         IN IF Falsy(current_tuple_full) THEN None
            ELSE LET branch == Slice(current_tuple_full, 2)
                     current_in_list == InList(cur, vs)
                     looped == GatewayLoop(vs, 1, branch, <<>>)
                     candidates ==
                         IF ~current_in_list /\ Slice(current_tuple_full, 2) = branch
                         THEN Append(looped, <<current_tuple_full, cur>>)
                         ELSE looped
                 IN IF candidates = <<>> THEN None
                    ELSE list_sort(candidates)[1][2]

\* the test for an empty catalog left out
max_version_same_branch_gateway_anycatalog(cur, vs) ==
    IF Falsy(cur) THEN None
    ELSE LET current_tuple_full == _gateway_version_to_tuple(cur)
         IN IF Falsy(current_tuple_full) THEN None
            ELSE LET branch == Slice(current_tuple_full, 2)
                     current_in_list == InList(cur, vs)
                     looped == GatewayLoop(vs, 1, branch, <<>>)
                     candidates ==
                         IF ~current_in_list /\ Slice(current_tuple_full, 2) = branch
                         THEN Append(looped, <<current_tuple_full, cur>>)
                         ELSE looped
                 IN IF candidates = <<>> THEN None
                    ELSE list_sort(candidates)[Len(candidates)][2]

max_version_same_branch_gateway(cur, vs) ==
    IF Falsy(cur) \/ Falsy(vs) THEN None
    ELSE LET current_tuple_full == _gateway_version_to_tuple(cur)
         IN IF Falsy(current_tuple_full) THEN None
            ELSE LET branch == Slice(current_tuple_full, 2)
                     current_in_list == InList(cur, vs)
                     looped == GatewayLoop(vs, 1, branch, <<>>)
                     candidates ==
                         IF ~current_in_list /\ Slice(current_tuple_full, 2) = branch
                         THEN Append(looped, <<current_tuple_full, cur>>)
                         ELSE looped
                 IN IF candidates = <<>> THEN None
                    ELSE list_sort(candidates)[Len(candidates)][2]

---------------------------------------------------------------------------
(* Inputs of the filter and the selectors *)

\* ""
V_empty == <<>>
\* "abc"
V_abc == <<"a", "b", "c">>
\* "8.13.0.0"
V_8_13_0_0 == <<"8", ".", "1", "3", ".", "0", ".", "0">>
\* "8.13"
V_8_13 == <<"8", ".", "1", "3">>
\* "8.13.0.5"
V_8_13_0_5 == <<"8", ".", "1", "3", ".", "0", ".", "5">>
\* "8.13.0.05"
V_8_13_0_05 == <<"8", ".", "1", "3", ".", "0", ".", "0", "5">>
\* "0.0.1"
V_0_0_1 == <<"0", ".", "0", ".", "1">>
\* "8.14.0.0"
V_8_14_0_0 == <<"8", ".", "1", "4", ".", "0", ".", "0">>
\* "9.0.0.0"
V_9_0_0_0 == <<"9", ".", "0", ".", "0", ".", "0">>
\* "8.7.0.0-2.3.0.9"
V_gw_9 == <<"8", ".", "7", ".", "0", ".", "0", "-", "2", ".", "3", ".", "0", ".", "9">>
\* "8.7.0.0-2.3.0.9_85196"
V_gw_9_build == <<"8", ".", "7", ".", "0", ".", "0", "-", "2", ".", "3", ".", "0", ".", "9", "_", "8", "5", "1", "9", "6">>
\* "8.7.0.0-2.3.0.5"
V_gw_5 == <<"8", ".", "7", ".", "0", ".", "0", "-", "2", ".", "3", ".", "0", ".", "5">>
\* "8.13-1.0"
V_8_13_d1_0 == <<"8", ".", "1", "3", "-", "1", ".", "0">>
\* "8.13-1_5"
V_8_13_d1_b5 == <<"8", ".", "1", "3", "-", "1", "_", "5">>

\* the strings a catalog is made of
CatalogPool ==
    {V_empty, V_abc, V_8_13_0_0, V_8_13, V_8_13_0_5, V_8_13_0_05, V_8_14_0_0,
     V_9_0_0_0, V_0_0_1,
     V_gw_9, V_gw_9_build, V_gw_5, V_8_13_d1_0, V_8_13_d1_b5}

\* the versions a device reports: a missing one (None), an empty one, ...
CurrentPool ==
    {None, V_empty, V_abc, V_8_13_0_0, V_8_13, V_gw_9, V_8_13_d1_0}

\* the catalogs of at most n entries
CatalogsUpTo(n) == UNION {[1..k -> CatalogPool] : k \in 0..n}

Init ==
    /\ version = None
    /\ current_version \in CurrentPool
    /\ versions \in CatalogsUpTo(MaxCat)
    /\ called = {}
    /\ r_tuple = None
    /\ r_gw_tuple = None
    /\ r_filtered = <<>>
    /\ r_max = None
    /\ r_gw_max = None
    /\ CatalogIdle
    /\ PipelineIdle

FilterVersions ==
    /\ "filter_versions_same_branch_higher" \notin called
    /\ r_filtered' = filter_versions_same_branch_higher(current_version, versions)
    /\ called' = called \cup {"filter_versions_same_branch_higher"}
    /\ UNCHANGED <<version, current_version, versions,
                   r_tuple, r_gw_tuple, r_max, r_gw_max>>
    /\ UNCHANGED <<catalogVars, pipelineVars>>

MaxVersion ==
    /\ "max_version_same_branch" \notin called
    /\ r_max' = max_version_same_branch(current_version, versions)
    /\ called' = called \cup {"max_version_same_branch"}
    /\ UNCHANGED <<version, current_version, versions,
                   r_tuple, r_gw_tuple, r_filtered, r_gw_max>>
    /\ UNCHANGED <<catalogVars, pipelineVars>>

MaxVersionGateway ==
    /\ "max_version_same_branch_gateway" \notin called
    /\ r_gw_max' = max_version_same_branch_gateway(current_version, versions)
    /\ called' = called \cup {"max_version_same_branch_gateway"}
    /\ UNCHANGED <<version, current_version, versions,
                   r_tuple, r_gw_tuple, r_filtered, r_max>>
    /\ UNCHANGED <<catalogVars, pipelineVars>>

Next == FilterVersions \/ MaxVersion \/ MaxVersionGateway

Spec == Init /\ [][Next]_vars

---------------------------------------------------------------------------
(* Inputs of the parsers *)

Alphabet == {"0", "1", ".", "-", "_", "a"}

\* every string over Alphabet of at most n characters
StringsUpTo(n) == UNION {[1..k -> Alphabet] : k \in 0..n}

\* the i-th digit run of a dotted text: of the main part, of the secondary part
RunAt(part, i) ==
    IF part = "main"
    THEN CASE i = 1 -> <<"8">> [] i = 2 -> <<"1", "3">> [] i = 3 -> <<"0">>
           [] i = 4 -> <<"0", "5">> [] OTHER -> <<"9">>
    ELSE CASE i = 1 -> <<"2">> [] i = 2 -> <<"3">> [] i = 3 -> <<"0">>
           [] i = 4 -> <<"9">> [] OTHER -> <<"4">>

\* k digit runs joined by ".": "8.13.0.05.9" is Dotted("main", 5)
RECURSIVE Dotted(_, _)
Dotted(part, k) ==
    IF k = 0 THEN <<>>
    ELSE IF k = 1 THEN RunAt(part, 1)
    ELSE Dotted(part, k - 1) \o <<".">> \o RunAt(part, k)

BuildId == <<"_", "8", "5", "1", "9", "6">>

\* main, main-secondary and main-secondary_build with 0..MaxRuns runs a part
DottedInputs ==
    {Dotted("main", k) : k \in 0..MaxRuns}
    \cup {Dotted("main", k) \o <<"-">> \o Dotted("sec", j) :
             k \in 0..MaxRuns, j \in 0..MaxRuns}
    \cup {Dotted("main", k) \o <<"-">> \o Dotted("sec", j) \o BuildId :
             k \in 0..MaxRuns, j \in 0..MaxRuns}

\* firmware names as the devices report them, and a text without digits
NamedInputs ==
    { <<"a", "b", "c">>,
      <<"W", "C", ".", "1", "6", ".", "1", "1", ".", "0", "0", "2", "6">>,
      <<"F", "L", ".", "1", "0", ".", "1", "3", ".", "1", "0", "1", "0">>,
      <<"8", ".", "7", "_", "5", "-", "2", "_", "3">> }

ParseInputs == StringsUpTo(MaxLen) \cup DottedInputs \cup NamedInputs \cup {None}

---------------------------------------------------------------------------
(* The parsers, each called once on the same argument *)

InitParse ==
    /\ version \in ParseInputs
    /\ current_version = None
    /\ versions = <<>>
    /\ called = {}
    /\ r_tuple = None
    /\ r_gw_tuple = None
    /\ r_filtered = <<>>
    /\ r_max = None
    /\ r_gw_max = None
    /\ CatalogIdle
    /\ PipelineIdle

ParseVersion ==
    /\ "parse_version" \notin called
    /\ r_tuple' = _version_to_tuple(version, DefaultLength)
    /\ called' = called \cup {"parse_version"}
    /\ UNCHANGED <<version, current_version, versions,
                   r_gw_tuple, r_filtered, r_max, r_gw_max>>
    /\ UNCHANGED <<catalogVars, pipelineVars>>

ParseGatewayVersion ==
    /\ "parse_gateway_version" \notin called
    /\ r_gw_tuple' = _gateway_version_to_tuple(version)
    /\ called' = called \cup {"parse_gateway_version"}
    /\ UNCHANGED <<version, current_version, versions,
                   r_tuple, r_filtered, r_max, r_gw_max>>
    /\ UNCHANGED <<catalogVars, pipelineVars>>

NextParse == ParseVersion \/ ParseGatewayVersion

SpecParse == InitParse /\ [][NextParse]_vars

---------------------------------------------------------------------------
(* What the parsers are to return, stated on the text itself *)

IsDigitAt(s, i) == s[i] \in DigitChars

HasDigit(s) == \E i \in 1..Len(s) : IsDigitAt(s, i)

\* positions where a maximal digit run of s begins
RunStarts(s) ==
    {i \in 1..Len(s) : IsDigitAt(s, i) /\ (i = 1 \/ ~IsDigitAt(s, i - 1))}

\* last position of the maximal digit run that begins at i
RunEnd(s, i) ==
    CHOOSE j \in i..Len(s) :
        /\ \A k \in i..j : IsDigitAt(s, k)
        /\ (j = Len(s) \/ ~IsDigitAt(s, j + 1))

\* where the n-th maximal digit run begins
NthRunStart(s, n) ==
    CHOOSE i \in RunStarts(s) : Cardinality({h \in RunStarts(s) : h < i}) = n - 1

\* the number written in decimal at positions i..j, read left to right
RECURSIVE DecimalValue(_, _, _, _)
DecimalValue(s, i, j, acc) ==
    IF i > j THEN acc
    ELSE DecimalValue(s, i + 1, j, 10 * acc + DigitVal(s[i]))

\* the first four maximal digit runs of s as numbers, 0 where s has no such run
ExpectedKey4(s) ==
    [n \in 1..4 |->
        IF n <= Cardinality(RunStarts(s))
        THEN LET i == NthRunStart(s, n) IN DecimalValue(s, i, RunEnd(s, i), 0)
        ELSE 0]

\* positions of character c in s
Positions(s, c) == {i \in 1..Len(s) : s[i] = c}

Least(S) == CHOOSE x \in S : \A y \in S : x <= y

\* the text before the first "-" (all of s when it has none)
MainText(s) ==
    IF Positions(s, "-") = {} THEN s
    ELSE SubSeq(s, 1, Least(Positions(s, "-")) - 1)

\* the text between the first "-" and the first "_" that follows it
SecondaryText(s) ==
    IF Positions(s, "-") = {} THEN <<>>
    ELSE LET d == Least(Positions(s, "-"))
             us == {i \in Positions(s, "_") : i > d}
         IN SubSeq(s, d + 1, IF us = {} THEN Len(s) ELSE Least(us) - 1)

\* C1: parse_version returns None exactly for an empty or null input and for
\* one without a digit; otherwise a tuple of exactly 4 non-negative integers,
\* the first (at most 4) maximal digit runs in order, padded with 0 on the
\* right; later runs and all non-digit characters do not count.
C1_ParseVersion ==
    "parse_version" \in called =>
        LET nokey == Falsy(version) \/ ~HasDigit(version)
        IN /\ (r_tuple = None) <=> nokey
           /\ ~nokey =>
                 /\ Len(r_tuple) = 4
                 /\ \A n \in 1..4 : r_tuple[n] \in Nat
                 /\ r_tuple = ExpectedKey4(version)

\* a version of five digit runs, two of them of two digits, has been parsed
C1_Witness ==
    /\ "parse_version" \in called
    /\ version = Dotted("main", 5)
    /\ Cardinality(RunStarts(version)) = 5
    /\ r_tuple = <<8, 13, 0, 5>>

\* C2: for a non-empty input parse_gateway_version returns exactly 8 integers:
\* the padded first four digit runs of the text before the first "-", then
\* those of the text between that "-" and the first "_" after it (zeros when
\* there is no "-"); the build id after that "_" does not count.
C2_ParseGateway ==
    ("parse_gateway_version" \in called /\ ~Falsy(version)) =>
        /\ Len(r_gw_tuple) = 8
        /\ \A n \in 1..8 : r_gw_tuple[n] \in Int
        /\ r_gw_tuple = ExpectedKey4(MainText(version))
                        \o ExpectedKey4(SecondaryText(version))

\* a version with a main part, a secondary part and a build id has been parsed
C2_Witness ==
    /\ "parse_gateway_version" \in called
    /\ version = Dotted("main", 4) \o <<"-">> \o Dotted("sec", 4) \o BuildId
    /\ r_gw_tuple = <<8, 13, 0, 5, 2, 3, 0, 9>>

\* C3: parse_gateway_version returns None exactly for an empty or null input;
\* a non-empty text without any digit gives eight zeros, where parse_version
\* returns None.
C3_GatewayNoneOnlyWhenEmpty ==
    /\ "parse_gateway_version" \in called =>
          /\ (r_gw_tuple = None) <=> Falsy(version)
          /\ (~Falsy(version) /\ ~HasDigit(version)) =>
                r_gw_tuple = <<0, 0, 0, 0, 0, 0, 0, 0>>
    /\ ("parse_version" \in called /\ ~Falsy(version) /\ ~HasDigit(version)) =>
          r_tuple = None

\* both parsers have returned on "abc"
C3_Witness ==
    /\ called = {"parse_version", "parse_gateway_version"}
    /\ version = <<"a", "b", "c">>
    /\ r_gw_tuple = <<0, 0, 0, 0, 0, 0, 0, 0>>
    /\ r_tuple = None

---------------------------------------------------------------------------
(* What the filter and the selectors are to return, stated on the texts *)

\* every text a catalog or a device may hold
AllTexts == CatalogPool \cup CurrentPool

\* the simple key of each text: none without a digit
SimpleKeys ==
    [v \in AllTexts |-> IF Falsy(v) \/ ~HasDigit(v) THEN None ELSE ExpectedKey4(v)]

SimpleKey(v) == SimpleKeys[v]

\* the gateway key of each text: none for an empty one
GatewayKeys ==
    [v \in AllTexts |->
        IF Falsy(v) THEN None
        ELSE ExpectedKey4(MainText(v)) \o ExpectedKey4(SecondaryText(v))]

GatewayKey(v) == GatewayKeys[v]

\* a before b in the lexicographic order of keys of one length
LexLess(a, b) ==
    \E i \in 1..Len(a) : a[i] < b[i] /\ \A j \in 1..(i - 1) : a[j] = b[j]

SameBranch(a, b) == a[1] = b[1] /\ a[2] = b[2]

\* catalog positions holding a text of current's branch, simple dialect
InBranch ==
    {i \in 1..Len(versions) :
        /\ SimpleKey(current_version) # None
        /\ SimpleKey(versions[i]) # None
        /\ SameBranch(SimpleKey(versions[i]), SimpleKey(current_version))}

\* those of them that are strictly newer than current
Newer ==
    {i \in InBranch : LexLess(SimpleKey(current_version), SimpleKey(versions[i]))}

\* place of catalog position i among the positions `newer`: by key, then by
\* position
RankOfNewer(i, newer) ==
    1 + Cardinality({h \in newer :
            \/ LexLess(SimpleKey(versions[h]), SimpleKey(versions[i]))
            \/ (SimpleKey(versions[h]) = SimpleKey(versions[i]) /\ h < i)})

\* C4: versions_same_branch_newer returns exactly the catalog entries that
\* parse, are of current's branch and have a key strictly greater than
\* current's, in non-decreasing key order, entries of equal key in their
\* catalog order.
C4_FilterExactSortedStable ==
    "filter_versions_same_branch_higher" \in called =>
        /\ Len(r_filtered) = Cardinality(Newer)
        /\ LET newer == Newer
           IN \A i \in newer : r_filtered[RankOfNewer(i, newer)] = versions[i]
        /\ \A j, k \in 1..Len(r_filtered) :
              j < k => ~LexLess(SimpleKey(r_filtered[k]), SimpleKey(r_filtered[j]))

\* two newer entries that the catalog lists against the order of their keys
C4_Witness ==
    /\ "filter_versions_same_branch_higher" \in called
    /\ current_version = V_8_13_0_0
    /\ versions = <<V_8_13_d1_0, V_8_13_0_05>>
    /\ r_filtered = <<V_8_13_0_05, V_8_13_d1_0>>

\* C5: a value returned by max_version_in_branch is an entry of the catalog,
\* of current's branch, of a key strictly greater than current's, and another
\* text than current.
C5_MaxIsNewerInBranch ==
    ("max_version_same_branch" \in called /\ r_max # None) =>
        /\ InList(r_max, versions)
        /\ SimpleKey(current_version) # None
        /\ SimpleKey(r_max) # None
        /\ SameBranch(SimpleKey(r_max), SimpleKey(current_version))
        /\ LexLess(SimpleKey(current_version), SimpleKey(r_max))
        /\ r_max # current_version

\* a higher version of another branch stands in the catalog and is passed over
C5_Witness ==
    /\ "max_version_same_branch" \in called
    /\ current_version = V_8_13_0_0
    /\ versions = <<V_9_0_0_0, V_8_13_0_5>>
    /\ r_max = V_8_13_0_5

\* C6: max_version_in_branch returns None exactly when no parsable entry of
\* current's branch has a key strictly greater than current's; otherwise the
\* key of the returned entry is at least the key of every in-branch entry.
C6_MaxNoneIffNothingNewer ==
    "max_version_same_branch" \in called =>
        /\ (r_max = None) <=> (Newer = {})
        /\ r_max # None =>
              \A i \in InBranch : ~LexLess(SimpleKey(r_max), SimpleKey(versions[i]))

\* the greatest of two newer entries is returned though listed first
C6_Witness ==
    /\ "max_version_same_branch" \in called
    /\ current_version = V_8_13_0_0
    /\ versions = <<V_8_13_d1_b5, V_8_13_0_5>>
    /\ r_max = V_8_13_d1_b5

\* catalog positions holding a text of current's branch, gateway dialect
GatewayInBranch ==
    {i \in 1..Len(versions) :
        /\ GatewayKey(current_version) # None
        /\ GatewayKey(versions[i]) # None
        /\ SameBranch(GatewayKey(versions[i]), GatewayKey(current_version))}

\* the texts the gateway selector chooses among
Collected ==
    {versions[i] : i \in GatewayInBranch}
    \cup (IF InList(current_version, versions) THEN {} ELSE {current_version})

\* C7: for a non-empty current and a non-empty catalog the gateway selector
\* returns a text whose 8-integer key is greatest among the collected ones:
\* the catalog entries of current's branch, and current when no entry is
\* textually current.
C7_GatewayGreatestOfCollected ==
    ("max_version_same_branch_gateway" \in called
        /\ ~Falsy(current_version) /\ versions # <<>>) =>
        /\ r_gw_max \in Collected
        /\ \A c \in Collected : ~LexLess(GatewayKey(r_gw_max), GatewayKey(c))

\* the secondary part decides between two entries of one main part
C7_Witness ==
    /\ "max_version_same_branch_gateway" \in called
    /\ current_version = V_gw_9
    /\ versions = <<V_gw_9, V_gw_5>>
    /\ r_gw_max = V_gw_9

\* C8: a current that no catalog entry equals textually, and whose key is
\* strictly greater than that of every in-branch entry of a non-empty
\* catalog, is itself returned by the gateway selector.
C8_GatewaySelfInclusion ==
    ("max_version_same_branch_gateway" \in called
        /\ ~Falsy(current_version) /\ versions # <<>>
        /\ ~InList(current_version, versions)
        /\ \A i \in GatewayInBranch :
              LexLess(GatewayKey(versions[i]), GatewayKey(current_version))) =>
        r_gw_max = current_version

\* current 8.7.0.0-2.3.0.9 wins over the catalog's only entry 8.7.0.0-2.3.0.5
C8_Witness ==
    /\ "max_version_same_branch_gateway" \in called
    /\ current_version = V_gw_9
    /\ versions = <<V_gw_5>>
    /\ r_gw_max = V_gw_9

\* current is a catalog entry and no in-branch entry has a greater gateway key
CurrentIsGatewayMax ==
    /\ ~Falsy(current_version)
    /\ InList(current_version, versions)
    /\ \A i \in GatewayInBranch :
          ~LexLess(GatewayKey(current_version), GatewayKey(versions[i]))

BothSelectorsCalled ==
    {"max_version_same_branch", "max_version_same_branch_gateway"} \subseteq called

Greatest(S) == CHOOSE x \in S : \A y \in S : y <= x

\* last catalog position holding a text of current's gateway key
LastOfCurrentKey ==
    Greatest({i \in 1..Len(versions) :
                 /\ GatewayKey(versions[i]) # None
                 /\ GatewayKey(versions[i]) = GatewayKey(current_version)})

\* the texts with at least four digit runs before the first "-"
FourRunsInMainTexts ==
    {v \in AllTexts : ~Falsy(v) /\ Cardinality(RunStarts(MainText(v))) >= 4}

FourRunsInMain(v) == v \in FourRunsInMainTexts

RECURSIVE InBranchFrom(_)
InBranchFrom(i) ==
    IF i > Len(versions) THEN <<>>
    ELSE (IF i \in GatewayInBranch THEN <<versions[i]>> ELSE <<>>)
         \o InBranchFrom(i + 1)

CollectedSeq ==
    IF InList(current_version, versions) THEN InBranchFrom(1)
    ELSE Append(InBranchFrom(1), current_version)

\* positions of seq holding a text of the greatest gateway key
TopOf(seq) ==
    {n \in 1..Len(seq) :
        \A m \in 1..Len(seq) : ~LexLess(GatewayKey(seq[n]), GatewayKey(seq[m]))}

---------------------------------------------------------------------------
(* Missing, malformed and repeated texts *)

\* a version that is missing (None), empty, or without any digit
Malformed(v) == Falsy(v) \/ ~HasDigit(v)

\* C11: in the simple dialect a current that is empty, null or without digits
\* gives the empty list from versions_same_branch_newer and None from
\* max_version_in_branch, whatever the catalog; a catalog entry that is empty
\* or without digits is never in the filter's result and never the maximum.
C11_SimpleMalformedDropped ==
    /\ "filter_versions_same_branch_higher" \in called =>
          /\ Malformed(current_version) => r_filtered = <<>>
          /\ \A k \in 1..Len(r_filtered) : ~Malformed(r_filtered[k])
    /\ "max_version_same_branch" \in called =>
          /\ Malformed(current_version) => r_max = None
          /\ r_max # None => ~Malformed(r_max)

\* current "abc" against a catalog that holds "abc" and a version of branch
\* 0.0: nothing is returned
C11_Witness ==
    /\ {"filter_versions_same_branch_higher", "max_version_same_branch"}
          \subseteq called
    /\ current_version = V_abc
    /\ versions = <<V_abc, V_0_0_1>>
    /\ r_filtered = <<>>
    /\ r_max = None

\* C12: in the gateway dialect a current that is empty, null or without digits
\* makes max_version_in_branch_gateway return None, whatever the catalog.
C12_AsClaimed ==
    ("max_version_same_branch_gateway" \in called /\ Malformed(current_version)) =>
        r_gw_max = None

\* the catalog with text d put in at position k (k = Len + 1: at the end)
InsertAt(vs, k, d) == SubSeq(vs, 1, k - 1) \o <<d>> \o SubSeq(vs, k, Len(vs))

\* C13: in the gateway dialect the returned value is never a catalog entry
\* without digits, and putting such an entry into the catalog does not change
\* the returned value.
C13_AsClaimed ==
    "max_version_same_branch_gateway" \in called =>
        /\ ~(r_gw_max # None /\ InList(r_gw_max, versions) /\ ~HasDigit(r_gw_max))
        /\ versions # <<>> =>
              \A k \in 1..(Len(versions) + 1) :
                  max_version_same_branch_gateway(
                      current_version, InsertAt(versions, k, V_abc)) = r_gw_max

\* C14: with an empty catalog max_version_in_branch and
\* max_version_in_branch_gateway both return None for every current,
\* well-formed or not; the gateway self-inclusion does not apply.
C14_EmptyCatalogGivesNone ==
    versions = <<>> =>
        /\ "max_version_same_branch" \in called => r_max = None
        /\ "max_version_same_branch_gateway" \in called => r_gw_max = None

\* both selectors have returned on a well-formed current and an empty catalog
C14_Witness ==
    /\ BothSelectorsCalled
    /\ current_version = V_gw_9
    /\ versions = <<>>
    /\ r_max = None
    /\ r_gw_max = None

\* the texts of a list, as a set
Elements(seq) == {seq[k] : k \in 1..Len(seq)}

\* the loop that removes repeated texts, keeping each at its first place
\* (the end of get_firmware_versions)
RECURSIVE UniqueFrom(_, _, _)
UniqueFrom(vs, i, unique_versions) ==
    IF i > Len(vs) THEN unique_versions
    ELSE IF vs[i] \in Elements(unique_versions)
         THEN UniqueFrom(vs, i + 1, unique_versions)
         ELSE UniqueFrom(vs, i + 1, Append(unique_versions, vs[i]))

AllCalled ==
    {"filter_versions_same_branch_higher", "max_version_same_branch",
     "max_version_same_branch_gateway"} \subseteq called

\* the three results do not change when catalog vs is replaced by catalog ws
SameResultsOn(ws) ==
    /\ r_max = max_version_same_branch(current_version, ws)
    /\ r_gw_max = max_version_same_branch_gateway(current_version, ws)
    /\ Elements(r_filtered) =
          Elements(filter_versions_same_branch_higher(current_version, ws))

\* C15: repeating an entry of the catalog, or removing the repeated texts
\* while keeping the first of each, changes neither of the two maxima nor the
\* set of texts the filter returns.
C15_AsClaimed ==
    AllCalled =>
        /\ SameResultsOn(UniqueFrom(versions, 1, <<>>))
        /\ \A i \in 1..Len(versions) : SameResultsOn(Append(versions, versions[i]))

---------------------------------------------------------------------------
(* What the gateway selector never does; where the two dialects agree *)

GatewayCalled == "max_version_same_branch_gateway" \in called

\* C21: a value returned by max_version_in_branch_gateway is an entry of the
\* catalog or the current text itself, its first two key integers are
\* current's, and its 8-integer key is not below current's key.
C21_GatewayNeverOlder ==
    (GatewayCalled /\ r_gw_max # None) =>
        /\ InList(r_gw_max, versions) \/ r_gw_max = current_version
        /\ SameBranch(GatewayKey(r_gw_max), GatewayKey(current_version))
        /\ ~LexLess(GatewayKey(r_gw_max), GatewayKey(current_version))

\* the catalog holds an older build and the same build with a build id;
\* current, absent from it, is returned
C21_Witness ==
    /\ GatewayCalled
    /\ current_version = V_gw_9
    /\ versions = <<V_gw_5, V_gw_9_build>>
    /\ r_gw_max = V_gw_9

\* C22: max_version_in_branch_gateway returns None exactly when current is
\* empty (or null) or the catalog is empty; for every other current and
\* catalog it returns a value.
C22_GatewayNoneOnlyOnEmpty ==
    GatewayCalled =>
        (r_gw_max = None <=> (Falsy(current_version) \/ versions = <<>>))

\* a current without digits and a catalog of another branch: current is
\* returned
C22_Witness ==
    /\ GatewayCalled
    /\ current_version = V_abc
    /\ versions = <<V_8_13_0_0>>
    /\ r_gw_max = V_abc

\* a text with at least one digit and no "-"
DashFree(t) == t # None /\ HasDigit(t) /\ Positions(t, "-") = {}

\* C29: for a text with a digit and no "-" the gateway key is the simple key
\* followed by four zeros; when current and every catalog entry are such
\* texts and max_version_in_branch returns a version,
\* max_version_in_branch_gateway returns the same version.
C29_DialectsAgreeDashFree ==
    /\ \A t \in Elements(versions) \cup {current_version} :
          DashFree(t) =>
              _gateway_version_to_tuple(t) =
                  _version_to_tuple(t, DefaultLength) \o <<0, 0, 0, 0>>
    /\ (/\ BothSelectorsCalled
        /\ DashFree(current_version)
        /\ \A k \in 1..Len(versions) : DashFree(versions[k])
        /\ r_max # None) => r_gw_max = r_max

\* the same relation on the values the two parsers returned for one text
DashFreeKeysAgree ==
    ({"parse_version", "parse_gateway_version"} \subseteq called /\ DashFree(version)) =>
        r_gw_tuple = r_tuple \o <<0, 0, 0, 0>>

\* two newer texts of one key, no "-" anywhere: both dialects return the
\* one listed last
C29_Witness ==
    /\ BothSelectorsCalled
    /\ current_version = V_8_13_0_0
    /\ versions = <<V_8_13_0_5, V_8_13_0_05>>
    /\ r_max = V_8_13_0_05
    /\ r_gw_max = V_8_13_0_05

---------------------------------------------------------------------------
(* get_firmware_versions: the catalog read from the version endpoint *)

MaxPayload == 3
MaxDictList == 1

HttpOk == 200
HttpError == 500

DeviceTypes == {"HP", "CX", "IAP", "CONTROLLER"}

\* JSON values, tagged: <<"str", text>>, <<"int", n>>, <<"null">>,
\* <<"list", entries>>; <<"absent">> stands for a key a dict does not have
JAbsent == <<"absent">>
JNull == <<"null">>
JStr(text) == <<"str", text>>
JInt(n) == <<"int", n>>
JList(entries) == <<"list", entries>>
\* an entry {"firmware_version": fv} of the list of versions
JEntry(fv) == <<"dict", fv>>
\* the payload {"data": data, "versions": vers}
JPayload(data, vers) == <<"dict", data, vers>>
\* a body that is not JSON: response.json() raises ValueError
InvalidJson == <<"invalid">>
\* the dict {}
JEmptyDict == <<"emptydict">>

\* Python truth value of a JSON value; dict.get gives None for an absent key
Truthy(j) ==
    CASE j[1] = "absent" -> FALSE
      [] j[1] = "null" -> FALSE
      [] j[1] = "str" -> j[2] # <<>>
      [] j[1] = "int" -> j[2] # 0
      [] j[1] = "list" -> j[2] # <<>>
      [] j[1] = "emptydict" -> FALSE
      [] OTHER -> TRUE

DigitChar(d) == CHOOSE c \in DigitChars : DigitVal(c) = d

\* str(n) of a natural number
RECURSIVE str_int(_)
str_int(n) ==
    IF n < 10 THEN <<DigitChar(n)>>
    ELSE str_int(n \div 10) \o <<DigitChar(n % 10)>>

\* str(x) of a JSON string or number
str(j) == IF j[1] = "str" THEN j[2] ELSE str_int(j[2])

Raised == <<"raise", <<>>>>
Returned(value) == <<"return", value>>

\* the loop over versions_raw: the firmware_version of a dict entry when it
\* is truthy, a str entry as it is, nothing for an entry of another type
RECURSIVE ExtractLoop(_, _, _)
ExtractLoop(versions_raw, i, vs) ==
    IF i > Len(versions_raw) THEN vs
    ELSE LET entry == versions_raw[i]
         IN IF entry[1] = "dict"
            THEN LET firmware_version == entry[2]
                 IN IF Truthy(firmware_version)
                    THEN ExtractLoop(versions_raw, i + 1,
                                     Append(vs, str(firmware_version)))
                    ELSE ExtractLoop(versions_raw, i + 1, vs)
            ELSE IF entry[1] = "str"
                 THEN ExtractLoop(versions_raw, i + 1, Append(vs, entry[2]))
                 ELSE ExtractLoop(versions_raw, i + 1, vs)

\* payload.get("data") or payload.get("versions") or [] for a dict, the
\* payload itself for a list, [] for anything else
versions_raw_of(payload) ==
    IF payload[1] = "dict"
    THEN IF Truthy(payload[2]) THEN payload[2][2]
         ELSE IF Truthy(payload[3]) THEN payload[3][2]
         ELSE <<>>
    ELSE IF payload[1] = "list" THEN payload[2]
    ELSE <<>>

\* get_firmware_versions on the response of the endpoint: it raises on a
\* status other than 200 and on a body that is not JSON
get_firmware_versions(response) ==
    IF response.status_code # HttpOk THEN Raised
    ELSE IF response.payload[1] = "invalid" THEN Raised
    ELSE LET versions_raw == versions_raw_of(response.payload)
             vs == ExtractLoop(versions_raw, 1, <<>>)
         IN Returned(UniqueFrom(vs, 1, <<>>))

\* the values of "firmware_version" in the payloads
FirmwareVersionPool ==
    {JAbsent, JNull, JStr(V_empty), JStr(V_8_13_0_0), JStr(V_8_13_0_5), JInt(8)}

\* the entries of the lists in the payloads
EntryPool ==
    {JEntry(fv) : fv \in FirmwareVersionPool}
        \cup {JStr(V_empty), JStr(V_8_13_0_0), JStr(V_8_14_0_0), JInt(5)}

EntryLists(n) == UNION {[1..k -> EntryPool] : k \in 0..n}

PayloadPool ==
    {JList(entries) : entries \in EntryLists(MaxPayload)}
        \cup {JPayload(data, vers) :
                 data \in {JAbsent} \cup {JList(l) : l \in EntryLists(MaxDictList)},
                 vers \in {JAbsent} \cup {JList(l) : l \in EntryLists(MaxDictList)}}
        \cup {JInt(5), InvalidJson}

ResponsePool ==
    {[status_code |-> HttpOk, payload |-> payload] : payload \in PayloadPool}
        \cup {[status_code |-> HttpError, payload |-> InvalidJson]}

InitCatalog ==
    /\ version = None
    /\ current_version = None
    /\ versions = <<>>
    /\ called = {}
    /\ r_tuple = None
    /\ r_gw_tuple = None
    /\ r_filtered = <<>>
    /\ r_max = None
    /\ r_gw_max = None
    /\ device_type \in DeviceTypes
    /\ \E response \in ResponsePool :
          api_versions = [d \in DeviceTypes |-> response]
    /\ r_catalog = NotCalled

    /\ PipelineIdle

GetFirmwareVersions ==
    /\ "get_firmware_versions" \notin called
    /\ r_catalog' = get_firmware_versions(api_versions[device_type])
    /\ called' = called \cup {"get_firmware_versions"}
    /\ UNCHANGED <<comparatorVars, device_type, api_versions, pipelineVars>>

NextCatalog == GetFirmwareVersions

SpecCatalog == InitCatalog /\ [][NextCatalog]_vars

\* the entries the endpoint listed for device_type
ListedEntries == versions_raw_of(api_versions[device_type].payload)

\* the version text an entry carries, <<>> when it carries none: the text of
\* a str entry, the firmware_version of a dict entry written as text
TextOfEntry(entry) ==
    IF entry[1] = "str" THEN entry[2]
    ELSE IF entry[1] = "dict" /\ entry[2][1] = "str" THEN entry[2][2]
    ELSE IF entry[1] = "dict" /\ entry[2][1] = "int" THEN str_int(entry[2][2])
    ELSE <<>>

\* the non-empty version texts of the payload
ListedTexts == {TextOfEntry(ListedEntries[k]) : k \in 1..Len(ListedEntries)} \ {<<>>}

\* place of the first entry of the payload that carries text t
FirstListed(t) ==
    Least({k \in 1..Len(ListedEntries) : TextOfEntry(ListedEntries[k]) = t})

NoRepeat(seq) == \A i, j \in 1..Len(seq) : seq[i] = seq[j] => i = j

InFirstListedOrder(seq) ==
    \A i, j \in 1..Len(seq) : i < j => FirstListed(seq[i]) < FirstListed(seq[j])

\* C17: the catalog get_firmware_versions returns has no repeated text, holds
\* exactly the non-empty version texts of the payload, and lists them in the
\* order of their first occurrence in the payload.
C17_AsClaimed ==
    r_catalog[1] = "return" =>
        /\ NoRepeat(r_catalog[2])
        /\ Elements(r_catalog[2]) = ListedTexts
        /\ InFirstListedOrder(r_catalog[2])

---------------------------------------------------------------------------
(* _calculer_firmware_max_switches: the catalog chosen by the model name *)

MaxFleet == 2

LowerCase == <<"a", "b", "c", "d", "e", "f", "g", "h", "i", "j", "k", "l", "m",
               "n", "o", "p", "q", "r", "s", "t", "u", "v", "w", "x", "y", "z">>
UpperCase == <<"A", "B", "C", "D", "E", "F", "G", "H", "I", "J", "K", "L", "M",
               "N", "O", "P", "Q", "R", "S", "T", "U", "V", "W", "X", "Y", "Z">>

char_upper(c) ==
    IF \E i \in 1..26 : LowerCase[i] = c
    THEN UpperCase[CHOOSE i \in 1..26 : LowerCase[i] = c]
    ELSE c

\* s.upper()
str_upper(s) == [i \in 1..Len(s) |-> char_upper(s[i])]

\* sub in s
str_contains(s, sub) ==
    \E i \in 1..(Len(s) - Len(sub) + 1) : SubSeq(s, i, i + Len(sub) - 1) = sub

T_2930F == <<"2", "9", "3", "0", "F">>
T_6300 == <<"6", "3", "0", "0">>
T_CX == <<"C", "X">>

\* an Optional[List[str]]: None, or <<"list", the texts>>
NoVersions == <<"None", <<>>>>
SomeVersions(vs) == <<"list", vs>>
FalsyVersions(v) == v[1] = "None" \/ v[2] = <<>>

\* try: get_firmware_versions(...) except Exception: print(...)
try_get_firmware_versions(response) ==
    LET outcome == get_firmware_versions(response)
    IN IF outcome[1] = "raise" THEN NoVersions ELSE SomeVersions(outcome[2])

determiner_version_max(modele, version_actuelle, versions_hp, versions_cx) ==
    IF Falsy(version_actuelle) THEN None
    ELSE LET modele_upper == str_upper(IF Falsy(modele) THEN <<>> ELSE modele)
             base_versions ==
                 IF ~FalsyVersions(versions_hp) /\ str_contains(modele_upper, T_2930F)
                 THEN versions_hp
                 ELSE IF ~FalsyVersions(versions_cx)
                         /\ (str_contains(modele_upper, T_6300)
                             \/ str_contains(modele_upper, T_CX))
                      THEN versions_cx
                      ELSE NoVersions
         IN IF FalsyVersions(base_versions) THEN None
            ELSE max_version_same_branch(version_actuelle, base_versions[2])

\* the frame with its new column firmware_max, and what was printed; api is
\* the version endpoint
_calculer_firmware_max_switches(df_switches, api) ==
    IF df_switches = <<>> THEN [df |-> df_switches, printed |-> <<>>]
    ELSE LET modele_series ==
                 [k \in 1..Len(df_switches) |->
                     str_upper(IF df_switches[k].model = None THEN <<>>
                               ELSE df_switches[k].model)]
             any_2930F == \E k \in 1..Len(df_switches) :
                              str_contains(modele_series[k], T_2930F)
             any_6300 == \E k \in 1..Len(df_switches) :
                             str_contains(modele_series[k], T_6300)
             versions_hp == IF any_2930F THEN try_get_firmware_versions(api["HP"])
                            ELSE NoVersions
             versions_cx == IF any_6300 THEN try_get_firmware_versions(api["CX"])
                            ELSE NoVersions
             printed_hp == IF any_2930F /\ versions_hp = NoVersions
                           THEN <<"versions HP">> ELSE <<>>
             printed_cx == IF any_6300 /\ versions_cx = NoVersions
                           THEN <<"versions CX">> ELSE <<>>
         IN [df |-> [k \in 1..Len(df_switches) |->
                        df_switches[k] @@
                            [firmware_max |->
                                determiner_version_max(
                                    df_switches[k].model,
                                    df_switches[k].firmware_version,
                                    versions_hp, versions_cx)]],
             printed |-> printed_hp \o printed_cx]

\* model names: "2930f", "6300M", "cx6200", "2930F-CX", "2930F-6300", "AP-515"
M_2930f == <<"2", "9", "3", "0", "f">>
M_6300M == <<"6", "3", "0", "0", "M">>
M_cx6200 == <<"c", "x", "6", "2", "0", "0">>
M_2930F_CX == <<"2", "9", "3", "0", "F", "-", "C", "X">>
M_2930F_6300 == <<"2", "9", "3", "0", "F", "-", "6", "3", "0", "0">>
M_AP_515 == <<"A", "P", "-", "5", "1", "5">>

ModelPool == {None, M_2930f, M_6300M, M_cx6200, M_2930F_CX, M_2930F_6300, M_AP_515}

SwitchRows ==
    [model : ModelPool, firmware_version : {None, V_8_13_0_0}]

Fleets(n) == UNION {[1..k -> SwitchRows] : k \in 0..n}

\* what the version endpoint answers for a device type in these runs: an
\* error, an empty list, or one list per device type
CatalogListOf(d) ==
    CASE d = "HP" -> <<JEntry(JStr(V_8_13_0_5))>>
      [] d = "CX" -> <<JEntry(JStr(V_8_13_d1_0)), JEntry(JStr(V_8_14_0_0))>>
      [] d = "IAP" -> <<JEntry(JStr(V_8_13_0_05))>>
      [] OTHER -> <<JEntry(JStr(V_gw_9_build)), JEntry(JStr(V_gw_5))>>

VersionAnswers(d) ==
    {[status_code |-> HttpError, payload |-> InvalidJson],
     [status_code |-> HttpOk, payload |-> JList(<<>>)],
     [status_code |-> HttpOk, payload |-> JList(CatalogListOf(d))]}

InitSwitches ==
    /\ version = None
    /\ current_version = None
    /\ versions = <<>>
    /\ called = {}
    /\ r_tuple = None
    /\ r_gw_tuple = None
    /\ r_filtered = <<>>
    /\ r_max = None
    /\ r_gw_max = None
    /\ device_type = ""
    /\ \E hp \in VersionAnswers("HP"), cx \in VersionAnswers("CX") :
          api_versions = [d \in DeviceTypes |->
                             CASE d = "HP" -> hp
                               [] d = "CX" -> cx
                               [] OTHER -> [status_code |-> HttpError,
                                            payload |-> InvalidJson]]
    /\ r_catalog = NotCalled
    /\ api_status = <<>>
    /\ excel_writable = TRUE
    /\ pc = "idle"
    /\ \E fleet \in Fleets(MaxFleet) : frames = [df_switch |-> fleet]
    /\ log = <<>>
    /\ jeux_de_donnees = NotCalled
    /\ excel = NotCalled
    /\ server_empty = {}
    /\ gateway_details = <<>>
    /\ ListingIdle

CalculerFirmwareMaxSwitches ==
    /\ "_calculer_firmware_max_switches" \notin called
    /\ LET result == _calculer_firmware_max_switches(frames.df_switch, api_versions)
       IN /\ frames' = [frames EXCEPT !.df_switch = result.df]
          /\ log' = log \o result.printed
    /\ called' = called \cup {"_calculer_firmware_max_switches"}
    /\ UNCHANGED <<comparatorVars, catalogVars, listingVars, server_empty,
                   gateway_details,
                   api_status, excel_writable, pc,
                   jeux_de_donnees, excel>>

NextSwitches == CalculerFirmwareMaxSwitches

SpecSwitches == InitSwitches /\ [][NextSwitches]_vars

\* the name of the model holds the word, whatever the case of its letters
SameLetter(a, b) ==
    \/ a = b
    \/ \E i \in 1..26 : {a, b} = {LowerCase[i], UpperCase[i]}

Mentions(model, word) ==
    /\ model # None
    /\ \E i \in 1..(Len(model) - Len(word) + 1) :
          \A j \in 1..Len(word) : SameLetter(model[i + j - 1], word[j])

\* what get_firmware_versions gives for a device type
CatalogOf(d) == get_firmware_versions(api_versions[d])

SwitchesDone == "_calculer_firmware_max_switches" \in called

\* C18: a switch whose model holds "6300" or "CX" and not "2930F" has, whenever
\* the CX catalog can be fetched, the firmware_max that
\* max_version_in_branch(current, CX catalog) gives; also in a fleet where a
\* model holds "CX" and none holds "6300".
C18_AsClaimed ==
    SwitchesDone =>
        \A k \in 1..Len(frames.df_switch) :
            LET row == frames.df_switch[k]
            IN (/\ Mentions(row.model, T_6300) \/ Mentions(row.model, T_CX)
                /\ ~Mentions(row.model, T_2930F)
                /\ CatalogOf("CX")[1] = "return") =>
                   row.firmware_max =
                       max_version_same_branch(row.firmware_version, CatalogOf("CX")[2])

\* C19: a switch whose model holds "2930F" gets its firmware_max from the HP
\* catalog only: max_version_in_branch(current, HP catalog) when that catalog
\* was fetched with at least one version, None when the fetch failed or gave
\* an empty list, also when the model holds "CX" or "6300" as well.
C19_AsClaimed ==
    SwitchesDone =>
        \A k \in 1..Len(frames.df_switch) :
            LET row == frames.df_switch[k]
            IN Mentions(row.model, T_2930F) =>
                   row.firmware_max =
                       IF CatalogOf("HP")[1] = "return" /\ CatalogOf("HP")[2] # <<>>
                       THEN max_version_same_branch(row.firmware_version,
                                                    CatalogOf("HP")[2])
                       ELSE None

\* the family of a switch, read from its model name
HPFamily(model) == Mentions(model, T_2930F)
CXFamily(model) ==
    (Mentions(model, T_6300) \/ Mentions(model, T_CX)) /\ ~Mentions(model, T_2930F)

\* the catalog of a device type could not be fetched, or is empty
CatalogMissing(d) == CatalogOf(d)[1] = "raise" \/ CatalogOf(d)[2] = <<>>

\* C23 (switch families): when the fetch of the HP or of the CX catalog raises
\* or gives an empty list, every switch of that family gets firmware_max =
\* None and the switches of the other family are still computed against
\* their own catalog.
C23_AsClaimed ==
    SwitchesDone =>
        \A k \in 1..Len(frames.df_switch) :
            LET row == frames.df_switch[k]
            IN /\ (HPFamily(row.model) /\ CatalogMissing("HP")) =>
                      row.firmware_max = None
               /\ (CXFamily(row.model) /\ CatalogMissing("CX")) =>
                      row.firmware_max = None
               /\ (HPFamily(row.model) /\ CatalogMissing("CX") /\ ~CatalogMissing("HP")) =>
                      row.firmware_max =
                          max_version_same_branch(row.firmware_version,
                                                  CatalogOf("HP")[2])
               /\ (CXFamily(row.model) /\ CatalogMissing("HP") /\ ~CatalogMissing("CX")) =>
                      row.firmware_max =
                          max_version_same_branch(row.firmware_version,
                                                  CatalogOf("CX")[2])

---------------------------------------------------------------------------
(* collect_datasets and main: one report run *)

HttpNotFound == 404

CONSOLIDE_COLONNES ==
    <<"serial", "mac_address", "hostname", "model",
      "firmware_version", "recommended", "firmware_max">>

\* opaque texts of the rows the server holds
T_S1 == <<"S", "1">>
T_S2 == <<"S", "2">>
T_G1 == <<"G", "1">>
T_VC1 == <<"V", "C", "1">>
T_AP1 == <<"A", "P", "1">>
T_mac == <<"m", "a", "c">>
T_name == <<"n", "a", "m", "e">>
M_A9004 == <<"A", "9", "0", "0", "4">>

ServerInventory ==
    <<[serial |-> T_S1, model |-> M_2930f], [serial |-> T_G1, model |-> M_A9004]>>

ServerSwitchesStack ==
    <<[serial |-> T_S1, macaddr |-> T_mac, name |-> T_name, model |-> M_2930f]>>

\* the lists of the server that can hold no record: the gateways, the
\* devices of a type, the swarms, the access points of the swarm
EmptyableLists == {"gateways", "devices_HP", "devices_CX", "swarms", "swarm_aps"}

ServerGateways ==
    IF "gateways" \in server_empty THEN <<>>
    ELSE <<[serial |-> T_G1, macaddr |-> T_mac, name |-> T_name, model |-> M_A9004,
            firmware_version |-> V_gw_9, recommended |-> None]>>

\* the field recommended_version of /monitoring/v1/gateways/{serial}
ServerRecommendedVersion == V_gw_9_build

ServerDevices(d) ==
    IF ("devices_" \o d) \in server_empty THEN <<>>
    ELSE IF d = "HP"
    THEN <<[serial |-> T_S1, mac_address |-> T_mac, hostname |-> T_name,
            model |-> M_2930f, firmware_version |-> V_8_13_0_0,
            recommended |-> V_8_13_0_5]>>
    ELSE <<[serial |-> T_S2, mac_address |-> T_mac, hostname |-> T_name,
            model |-> M_6300M, firmware_version |-> V_8_13_0_0,
            recommended |-> V_8_14_0_0]>>

\* the three frames built from the one swarm the server holds; the row of
\* the virtual controller takes mac_address and model from the first access
\* point of the swarm
ServerSwarmVC ==
    IF "swarms" \in server_empty THEN <<>>
    ELSE <<[serial |-> T_VC1,
            mac_address |-> IF "swarm_aps" \in server_empty THEN None ELSE T_mac,
            hostname |-> T_name,
            model |-> IF "swarm_aps" \in server_empty THEN None ELSE M_AP_515,
            vc_name |-> T_name,
            firmware_version |-> V_8_13_0_0, recommended |-> V_8_13_0_5]>>
ServerSwarmAP ==
    IF "swarms" \in server_empty \/ "swarm_aps" \in server_empty THEN <<>>
    ELSE <<[serial |-> T_AP1, mac_address |-> T_mac, hostname |-> T_name,
            model |-> M_AP_515, vc_name |-> T_name,
            firmware_version |-> V_8_13_0_0, recommended |-> V_8_13_0_5]>>
ServerSwarmVersions ==
    IF "swarms" \in server_empty THEN <<>>
    ELSE <<[vc_name |-> T_name, firmware_version |-> V_8_13_0_0,
            recommended_firmware_version |-> V_8_13_0_5]>>

\* the inventory returned as an empty frame when the call fails
recuperer_inventaire_besteffort(status) ==
    IF status = HttpOk THEN Returned(ServerInventory) ELSE Returned(<<>>)

\* a fetcher that raises ValueError on a status other than 200
recuperer_inventaire(status) ==
    IF status = HttpOk THEN Returned(ServerInventory) ELSE Raised

lister_switches_stack(status) ==
    IF status # HttpOk THEN Raised ELSE Returned(ServerSwitchesStack)

\* the gateway list returned as an empty frame when the call fails
lister_gateways_besteffort(status) ==
    IF status # HttpOk THEN Returned(<<>>) ELSE Returned(ServerGateways)

lister_gateways(status) ==
    IF status # HttpOk THEN Raised ELSE Returned(ServerGateways)

get_firmware_switch(status, d) ==
    IF status # HttpOk THEN Raised ELSE Returned(ServerDevices(d))

get_firmware_swarms(status) ==
    IF status # HttpOk THEN Raised
    ELSE Returned(<<ServerSwarmVC, ServerSwarmAP, ServerSwarmVersions>>)

\* the JSON object of a gateway with its key recommended_version (JAbsent
\* when the object has other keys only)
JDetails(rv) == <<"dict", rv>>
\* a 200 whose body is empty: response.text is ""
EmptyText == <<"emptytext">>

\* what requests.get does for one serial: it raises, or it returns a response
DetailException == [raises |-> TRUE, status_code |-> 0, body |-> EmptyText]
DetailResponse(status, body) == [raises |-> FALSE, status_code |-> status, body |-> body]

\* the answer of the server of the run to a detail call
DetailResponseOf(status) ==
    DetailResponse(status, IF status = HttpOk
                           THEN JDetails(JStr(ServerRecommendedVersion))
                           ELSE EmptyText)

\* _recuperer_details_gateway: the JSON on 200 ({} for an empty body), None
\* otherwise; an exception and a status other than 200 and 404 are printed
_recuperer_details_gateway(response) ==
    IF response.raises
    THEN [details |-> JNull, printed |-> <<"gateway details">>]
    ELSE IF response.status_code = HttpOk
    THEN IF response.body[1] = "emptytext"
         THEN [details |-> JEmptyDict, printed |-> <<>>]
         ELSE IF response.body[1] = "invalid"
         THEN [details |-> JNull, printed |-> <<"gateway details">>]
         ELSE [details |-> response.body, printed |-> <<>>]
    ELSE IF response.status_code = HttpNotFound
         THEN [details |-> JNull, printed |-> <<>>]
         ELSE [details |-> JNull, printed |-> <<"gateway details">>]

RECURSIVE FlattenPrinted(_)
FlattenPrinted(lines) ==
    IF lines = <<>> THEN <<>> ELSE Head(lines) \o FlattenPrinted(Tail(lines))

\* row.get("serial"): NaN (None here) in a row the server gave no serial
row_get_serial(row) == IF "serial" \in DOMAIN row THEN row.serial ELSE None

\* recommended taken from every answer that carries a recommended_version,
\* whatever its status and whether or not the row has a serial
enrichir_gateways_recommended_anystatus(df_gateways, responses) ==
    [df |-> [k \in 1..Len(df_gateways) |->
                [recommended |->
                    IF responses[k].raises \/ responses[k].body[1] # "dict"
                       \/ responses[k].body[2][1] # "str"
                    THEN None ELSE responses[k].body[2][2]] @@ df_gateways[k]],
     printed |-> <<>>, raised |-> FALSE]

\* enrichir_gateways_recommended with responses[k] the answer to the detail
\* call for row k. details.get on an answer that is not a dict raises
\* AttributeError, which the function does not catch.
enrichir_gateways_recommended(df_gateways, responses) ==
    IF df_gateways = <<>>
    THEN [df |-> df_gateways, printed |-> <<>>, raised |-> FALSE]
    ELSE IF \A k \in 1..Len(df_gateways) : "serial" \notin DOMAIN df_gateways[k]
    THEN [df |-> [k \in 1..Len(df_gateways) |->
                     [recommended |-> None] @@ df_gateways[k]],
          printed |-> <<"serial absente">>, raised |-> FALSE]
    ELSE LET call(k) == _recuperer_details_gateway(responses[k])
             asked(k) == ~Falsy(row_get_serial(df_gateways[k]))
             details(k) == call(k).details
             fails(k) == asked(k) /\ Truthy(details(k)) /\ details(k)[1] # "dict"
             failing == {k \in 1..Len(df_gateways) : fails(k)}
             last == IF failing = {} THEN Len(df_gateways)
                     ELSE CHOOSE k \in failing : \A j \in failing : k <= j
             recommended(k) == details(k)[2]
         IN [df |-> [k \in 1..Len(df_gateways) |->
                        [recommended |->
                            IF asked(k) /\ Truthy(details(k))
                               /\ details(k)[1] = "dict" /\ Truthy(recommended(k))
                            THEN recommended(k)[2] ELSE None] @@ df_gateways[k]],
             printed |-> FlattenPrinted(
                 [k \in 1..last |->
                     IF asked(k) THEN call(k).printed ELSE <<>>]),
             raised |-> failing # {}]

_calculer_firmware_max_gateways(df_gateways, api) ==
    IF df_gateways = <<>> THEN [df |-> df_gateways, printed |-> <<>>]
    ELSE LET versions_gw == try_get_firmware_versions(api["CONTROLLER"])
             calculer_max(current) ==
                 IF Falsy(current) THEN None
                 ELSE max_version_same_branch_gateway(current, versions_gw[2])
         IN [df |-> [k \in 1..Len(df_gateways) |->
                        df_gateways[k] @@
                            [firmware_max |->
                                IF ~FalsyVersions(versions_gw)
                                THEN calculer_max(df_gateways[k].firmware_version)
                                ELSE None]],
             printed |-> (IF versions_gw = NoVersions
                          THEN <<"versions CONTROLLER">> ELSE <<>>)
                         \o (IF FalsyVersions(versions_gw)
                             THEN <<"no CONTROLLER version">> ELSE <<>>)]

\* appliquer(df) for the three swarm frames
_calculer_firmware_max_swarms(df_vc, df_aps, df_vc_versions, api) ==
    IF df_vc = <<>> /\ df_aps = <<>>
    THEN [dfs |-> <<df_vc, df_aps, df_vc_versions>>, printed |-> <<>>]
    ELSE LET versions_iap == try_get_firmware_versions(api["IAP"])
             appliquer(df) ==
                 [k \in 1..Len(df) |->
                     df[k] @@
                         [firmware_max |->
                             IF ~FalsyVersions(versions_iap)
                             THEN max_version_same_branch(df[k].firmware_version,
                                                          versions_iap[2])
                             ELSE None]]
         IN [dfs |-> <<appliquer(df_vc), appliquer(df_aps), appliquer(df_vc_versions)>>,
             printed |-> IF versions_iap = NoVersions
                         THEN <<"versions IAP">> ELSE <<>>]

\* df.reindex(columns=CONSOLIDE_COLONNES): a missing column is filled with NaN
reindex(df) ==
    [k \in 1..Len(df) |->
        [c \in Elements(CONSOLIDE_COLONNES) |->
            IF c \in DOMAIN df[k] THEN df[k][c] ELSE None]]

\* the gateway rows cut to the consolidated columns under their own names
_preparer_gateways_consolide_norename(df_gateways) == reindex(df_gateways)

_preparer_gateways_consolide(df_gateways) ==
    IF df_gateways = <<>> THEN <<>>
    ELSE [k \in 1..Len(df_gateways) |->
             LET row == df_gateways[k]
                 renamed(c) == CASE c = "mac_address" -> "macaddr"
                                 [] c = "hostname" -> "name"
                                 [] OTHER -> c
             IN [c \in Elements(CONSOLIDE_COLONNES) |->
                    IF renamed(c) \in DOMAIN row THEN row[renamed(c)] ELSE None]]

\* pd.concat of the frames that are not empty: the rows one after the other,
\* each with every column of the result (NaN where it had none)
RECURSIVE ConcatRows(_)
ConcatRows(fs) == IF fs = <<>> THEN <<>> ELSE Head(fs) \o ConcatRows(Tail(fs))

_concat_frames(fs) ==
    LET rows == ConcatRows(fs)
        columns == UNION {DOMAIN rows[k] : k \in 1..Len(rows)}
    IN [k \in 1..Len(rows) |->
           [c \in columns |-> IF c \in DOMAIN rows[k] THEN rows[k][c] ELSE None]]

\* df.assign(type_entree=...)
assign_type_entree(df, value) ==
    [k \in 1..Len(df) |-> df[k] @@ [type_entree |-> value]]

T_VC == <<"V", "C">>
T_AP == <<"A", "P">>

Endpoints ==
    {"inventory", "switches", "gateways", "gateway_details",
     "devices_HP", "devices_CX", "swarms"}

\* the status each endpoint answers with during the run; only the gateway
\* detail call tells 404 from the other errors
StatusMaps ==
    {st \in [Endpoints -> {HttpOk, HttpNotFound, HttpError}] :
        \A e \in Endpoints \ {"gateway_details"} : st[e] # HttpNotFound}

\* the local variable name bound to value
Assign(fr, name, value) == (name :> value) @@ fr

InitRun ==
    /\ version = None
    /\ current_version = None
    /\ versions = <<>>
    /\ called = {}
    /\ r_tuple = None
    /\ r_gw_tuple = None
    /\ r_filtered = <<>>
    /\ r_max = None
    /\ r_gw_max = None
    /\ device_type = ""
    /\ \E hp \in VersionAnswers("HP"), cx \in VersionAnswers("CX"),
          iap \in VersionAnswers("IAP"), gw \in VersionAnswers("CONTROLLER") :
          api_versions = [d \in DeviceTypes |->
                             CASE d = "HP" -> hp [] d = "CX" -> cx
                               [] d = "IAP" -> iap [] OTHER -> gw]
    /\ r_catalog = NotCalled
    /\ api_status \in StatusMaps
    /\ excel_writable \in BOOLEAN
    /\ pc = "recuperer_inventaire"
    /\ frames = <<>>
    /\ log = <<>>
    /\ jeux_de_donnees = NotCalled
    /\ excel = NotCalled
    /\ server_empty = {}
    /\ gateway_details = [k \in 1..Len(ServerGateways) |->
                              DetailResponseOf(api_status["gateway_details"])]
    /\ ListingIdle

\* a call of collect_datasets whose exception nothing catches before main:
\* the result is bound to the local variable, or the exception leaves
\* collect_datasets
Fetch(here, outcome, name, next) ==
    /\ pc = here
    /\ IF outcome[1] = "raise"
       THEN pc' = "except" /\ frames' = frames
       ELSE pc' = next /\ frames' = Assign(frames, name, outcome[2])
    /\ UNCHANGED <<comparatorVars, called, catalogVars, listingVars, server_empty,
                   gateway_details,
                   api_status,
                   excel_writable, log, jeux_de_donnees, excel>>

\* a call that catches its own failures and prints them
Compute(here, result, name, next) ==
    /\ pc = here
    /\ pc' = next
    /\ frames' = Assign(frames, name, result.df)
    /\ log' = log \o result.printed
    /\ UNCHANGED <<comparatorVars, called, catalogVars, listingVars, server_empty,
                   gateway_details,
                   api_status,
                   excel_writable, jeux_de_donnees, excel>>

RecupererInventaire ==
    Fetch("recuperer_inventaire", recuperer_inventaire(api_status["inventory"]),
          "df_inventory", "lister_switches_stack")

ListerSwitchesStack ==
    Fetch("lister_switches_stack", lister_switches_stack(api_status["switches"]),
          "df_switches_stack", "lister_gateways")

ListerGateways ==
    Fetch("lister_gateways", lister_gateways(api_status["gateways"]),
          "df_gateways", "enrichir_gateways_recommended")

\* line 205 of collect_datasets: an exception out of the function leaves
\* collect_datasets, after what the function printed
EnrichirGatewaysRecommended ==
    /\ pc = "enrichir_gateways_recommended"
    /\ LET result == enrichir_gateways_recommended(frames["df_gateways"],
                                                   gateway_details)
       IN IF result.raised
          THEN /\ pc' = "except"
               /\ log' = log \o result.printed
               /\ UNCHANGED <<comparatorVars, called, catalogVars, listingVars,
                              server_empty, gateway_details, api_status,
                              excel_writable, frames, jeux_de_donnees, excel>>
          ELSE Compute("enrichir_gateways_recommended", result,
                       "df_gateways", "_calculer_firmware_max_gateways")

CalculerFirmwareMaxGateways ==
    /\ pc = "_calculer_firmware_max_gateways"
    /\ Compute("_calculer_firmware_max_gateways",
               _calculer_firmware_max_gateways(frames["df_gateways"], api_versions),
               "df_gateways", "get_firmware_switch_hp")

GetFirmwareSwitchHP ==
    Fetch("get_firmware_switch_hp",
          get_firmware_switch(api_status["devices_HP"], "HP"),
          "df_switch_hp", "get_firmware_switch_cx")

GetFirmwareSwitchCX ==
    Fetch("get_firmware_switch_cx",
          get_firmware_switch(api_status["devices_CX"], "CX"),
          "df_switch_cx", "_calculer_firmware_max_switches")

\* df_switch = _concat_frames([...]), then its firmware_max
RunFirmwareMaxSwitches ==
    /\ pc = "_calculer_firmware_max_switches"
    /\ Compute("_calculer_firmware_max_switches",
               _calculer_firmware_max_switches(
                   _concat_frames(<<frames["df_switch_hp"], frames["df_switch_cx"]>>),
                   api_versions),
               "df_switch", "get_firmware_swarms")

GetFirmwareSwarms ==
    Fetch("get_firmware_swarms", get_firmware_swarms(api_status["swarms"]),
          "df_swarms", "_calculer_firmware_max_swarms")

CalculerFirmwareMaxSwarms ==
    /\ pc = "_calculer_firmware_max_swarms"
    /\ LET result == _calculer_firmware_max_swarms(
                         frames["df_swarms"][1], frames["df_swarms"][2],
                         frames["df_swarms"][3], api_versions)
       IN Compute("_calculer_firmware_max_swarms",
                  [df |-> result.dfs, printed |-> result.printed],
                  "df_swarms", "return")

\* the consolidated view, the swarm sheet and the returned dict
ReturnDatasets ==
    /\ pc = "return"
    /\ LET df_swarms_vc == frames["df_swarms"][1]
           df_swarms_ap == frames["df_swarms"][2]
           df_gateways_consolide == _preparer_gateways_consolide(frames["df_gateways"])
           df_consolide ==
               _concat_frames(<<reindex(frames["df_switch"]),
                                reindex(df_swarms_vc),
                                df_gateways_consolide>>)
           df_swarms_sheet ==
               _concat_frames(<<assign_type_entree(df_swarms_vc, T_VC),
                                assign_type_entree(df_swarms_ap, T_AP)>>)
       IN jeux_de_donnees' =
              Returned([inventaire |-> frames["df_inventory"],
                        switches_stack |-> frames["df_switches_stack"],
                        gateways |-> frames["df_gateways"],
                        firmware_switch |-> frames["df_switch"],
                        firmware_swarms |-> df_swarms_sheet,
                        firmware_consolide |-> df_consolide])
    /\ pc' = "export_to_excel"
    /\ UNCHANGED <<comparatorVars, called, catalogVars, listingVars, server_empty,
                   gateway_details,
                   api_status,
                   excel_writable, frames, log, excel>>

ordre_feuilles ==
    <<"firmware_consolide", "inventaire", "switches_stack", "gateways",
      "firmware_switch", "firmware_swarms">>

\* the sheets written: one per frame that is not empty, in the order of
\* ordre_feuilles; an exception when the file cannot be written
export_to_excel(dataframes, writable) ==
    IF ~writable THEN Raised
    ELSE Returned(SelectSeq(ordre_feuilles, LAMBDA cle : dataframes[cle] # <<>>))

ExportToExcel ==
    /\ pc = "export_to_excel"
    /\ excel' = export_to_excel(jeux_de_donnees[2], excel_writable)
    /\ pc' = IF excel'[1] = "raise" THEN "except" ELSE "done"
    /\ UNCHANGED <<comparatorVars, called, catalogVars, listingVars, server_empty,
                   gateway_details,
                   api_status,
                   excel_writable, frames, log, jeux_de_donnees>>

\* except Exception as e: print(...)
MainExcept ==
    /\ pc = "except"
    /\ log' = Append(log, "erreur")
    /\ pc' = "done"
    /\ UNCHANGED <<comparatorVars, called, catalogVars, listingVars, server_empty,
                   gateway_details,
                   api_status,
                   excel_writable, frames, jeux_de_donnees, excel>>

NextRun ==
    \/ RecupererInventaire
    \/ ListerSwitchesStack
    \/ ListerGateways
    \/ EnrichirGatewaysRecommended
    \/ CalculerFirmwareMaxGateways
    \/ GetFirmwareSwitchHP
    \/ GetFirmwareSwitchCX
    \/ RunFirmwareMaxSwitches
    \/ GetFirmwareSwarms
    \/ CalculerFirmwareMaxSwarms
    \/ ReturnDatasets
    \/ ExportToExcel
    \/ MainExcept

SpecRun == InitRun /\ [][NextRun]_vars

\* the calls whose failure is an exception nothing catches before main
MandatoryEndpoints ==
    {"inventory", "switches", "gateways", "devices_HP", "devices_CX", "swarms"}

AllMandatoryOk == \A e \in MandatoryEndpoints : api_status[e] = HttpOk

Printed(line) == \E k \in 1..Len(log) : log[k] = line

CatalogFailed(d) == api_versions[d].status_code # HttpOk

\* C20, as stated: whatever single call fails, collect_datasets returns and
\* export_to_excel is reached.
C20_AsClaimed ==
    pc = "done" => (jeux_de_donnees[1] = "return" /\ excel[1] # "not called")

\* C20: the failure of a version catalog fetch or of a gateway detail call is
\* printed and the run goes on to the export; the failure of the inventory,
\* switch list, gateway list, firmware devices or swarms call ends
\* collect_datasets with an exception that main prints, and export_to_excel
\* is not called.
C20_BestEffortForCatalogsAndDetails ==
    pc = "done" =>
        /\ jeux_de_donnees[1] = "return" <=> AllMandatoryOk
        /\ excel[1] # "not called" <=> AllMandatoryOk
        /\ ~AllMandatoryOk => (log # <<>> /\ log[Len(log)] = "erreur")
        /\ AllMandatoryOk =>
              /\ \A d \in DeviceTypes : CatalogFailed(d) => Printed("versions " \o d)
              /\ api_status["gateway_details"] = HttpError => Printed("gateway details")
              /\ excel_writable => excel[1] = "return"

\* every catalog fetch and the gateway detail call fail, and the report is
\* written all the same
C20_Witness ==
    /\ pc = "done"
    /\ AllMandatoryOk
    /\ \A d \in DeviceTypes : CatalogFailed(d)
    /\ api_status["gateway_details"] = HttpError
    /\ excel[1] = "return"
    /\ Len(log) >= 5

\* an exception reached the except clause of main and was printed last
ErrorPrinted == log # <<>> /\ log[Len(log)] = "erreur"

\* C27: in main, export_to_excel is called only once collect_datasets has
\* returned; an exception out of a step of collect_datasets or out of
\* export_to_excel goes to the except clause, which prints it, and the run
\* ends; after the failure of a mandatory fetch the run ends with the error
\* printed and no export.
C27_ExportOnlyAfterCollect ==
    /\ excel[1] # "not called" => jeux_de_donnees[1] = "return"
    /\ pc = "except" => (jeux_de_donnees[1] # "return" \/ excel[1] = "raise")
    /\ pc = "done" =>
          /\ ErrorPrinted <=> (jeux_de_donnees[1] # "return" \/ excel[1] = "raise")
          /\ ~AllMandatoryOk => (excel = NotCalled /\ ErrorPrinted)
          /\ ~excel_writable => (excel[1] # "return" /\ ErrorPrinted)

\* the gateway list fails: the run ends with the error printed and no export
C27_Witness ==
    /\ pc = "done"
    /\ api_status["inventory"] = HttpOk
    /\ api_status["switches"] = HttpOk
    /\ api_status["gateways"] = HttpError
    /\ jeux_de_donnees = NotCalled
    /\ excel = NotCalled
    /\ ErrorPrinted

---------------------------------------------------------------------------
(* the consolidated view of a run whose fetches all succeed *)

\* the run with every mandatory call answering 200; any of the lists of the
\* server may hold no record
InitReport ==
    /\ version = None
    /\ current_version = None
    /\ versions = <<>>
    /\ called = {}
    /\ r_tuple = None
    /\ r_gw_tuple = None
    /\ r_filtered = <<>>
    /\ r_max = None
    /\ r_gw_max = None
    /\ device_type = ""
    /\ \E hp \in VersionAnswers("HP"), cx \in VersionAnswers("CX"),
          iap \in VersionAnswers("IAP"), gw \in VersionAnswers("CONTROLLER") :
          api_versions = [d \in DeviceTypes |->
                             CASE d = "HP" -> hp [] d = "CX" -> cx
                               [] d = "IAP" -> iap [] OTHER -> gw]
    /\ r_catalog = NotCalled
    /\ api_status \in {st \in StatusMaps : \A e \in MandatoryEndpoints : st[e] = HttpOk}
    /\ excel_writable \in BOOLEAN
    /\ pc = "recuperer_inventaire"
    /\ frames = <<>>
    /\ log = <<>>
    /\ jeux_de_donnees = NotCalled
    /\ excel = NotCalled
    /\ server_empty \in SUBSET EmptyableLists
    /\ gateway_details = [k \in 1..Len(ServerGateways) |->
                              DetailResponseOf(api_status["gateway_details"])]
    /\ ListingIdle

SpecReport == InitReport /\ [][NextRun]_vars

\* the devices of the server that belong in the consolidated view, in its
\* order: HP switches, CX switches, virtual controllers, gateways
ConsolidatedDevices ==
    ServerDevices("HP") \o ServerDevices("CX") \o ServerSwarmVC \o ServerGateways

\* the rows of the view that are gateways
FirstGatewayRow == Len(ConsolidatedDevices) - Len(ServerGateways) + 1

\* firmware_max of a gateway by the gateway dialect: None without a usable
\* CONTROLLER catalog or without a current version
GatewayFirmwareMax(current) ==
    LET versions_gw == try_get_firmware_versions(api_versions["CONTROLLER"])
    IN IF FalsyVersions(versions_gw) \/ Falsy(current) THEN None
       ELSE max_version_same_branch_gateway(current, versions_gw[2])

\* C28: the consolidated view returned by collect_datasets has one row per
\* switch (HP, then CX), then one per virtual controller, then one per
\* gateway, and none for an access point; every row has exactly the
\* columns of CONSOLIDE_COLONNES; a gateway row carries the macaddr and name
\* of the gateway as mac_address and hostname, and the firmware_max of the
\* gateway dialect.
C28_ConsolidatedView ==
    jeux_de_donnees[1] = "return" =>
        LET view == jeux_de_donnees[2].firmware_consolide
        IN /\ Len(view) = Len(ConsolidatedDevices)
           /\ \A k \in 1..Len(view) :
                 /\ DOMAIN view[k] = Elements(CONSOLIDE_COLONNES)
                 /\ view[k].serial = ConsolidatedDevices[k].serial
                 /\ view[k].firmware_version = ConsolidatedDevices[k].firmware_version
                 /\ view[k].serial # T_AP1
           /\ \A k \in FirstGatewayRow..Len(view) :
                 LET gateway == ServerGateways[k - FirstGatewayRow + 1]
                 IN /\ view[k].mac_address = gateway.macaddr
                    /\ view[k].hostname = gateway.name
                    /\ view[k].model = gateway.model
                    /\ view[k].firmware_max =
                           GatewayFirmwareMax(gateway.firmware_version)

\* the four families and an access point on the server: four rows, the
\* gateway last with a firmware_max
C28_Witness ==
    /\ pc = "done"
    /\ server_empty = {}
    /\ jeux_de_donnees[1] = "return"
    /\ Len(jeux_de_donnees[2].firmware_consolide) = 4
    /\ jeux_de_donnees[2].firmware_consolide[1].serial = T_S1
    /\ jeux_de_donnees[2].firmware_consolide[4].serial = T_G1
    /\ jeux_de_donnees[2].firmware_consolide[4].firmware_max # None
    /\ excel[1] = "return"

---------------------------------------------------------------------------
(* lister_gateways and lister_switches_stack: the page loop *)

MaxRecords == 5
MaxLimit == 3

\* the server's answer to (offset, limit): records[offset : offset + limit]
server_slice(recs, off, lim) ==
    SubSeq(recs, off + 1, IF off + lim < Len(recs) THEN off + lim ELSE Len(recs))

\* _recuperer_page_gateways / _recuperer_page_switches
_recuperer_page(status, recs, off, lim) ==
    IF status # HttpOk THEN Raised ELSE Returned(server_slice(recs, off, lim))

\* the offset moved one record too far after a full page
page_loop_body_skip(outcome, all, off, lim) ==
    IF outcome[1] = "raise" THEN [tous |-> all, offset |-> off, page_pc |-> "raised"]
    ELSE LET page == outcome[2]
         IN IF page = <<>>
            THEN [tous |-> all, offset |-> off, page_pc |-> "returned"]
            ELSE IF Len(page) < lim
                 THEN [tous |-> all \o page, offset |-> off, page_pc |-> "returned"]
                 ELSE [tous |-> all \o page, offset |-> off + lim + 1, page_pc |-> "loop"]

\* the loop left after a full page as after a short one
page_loop_body_onepage(outcome, all, off, lim) ==
    IF outcome[1] = "raise" THEN [tous |-> all, offset |-> off, page_pc |-> "raised"]
    ELSE LET page == outcome[2]
         IN IF page = <<>>
            THEN [tous |-> all, offset |-> off, page_pc |-> "returned"]
            ELSE IF Len(page) <= lim
                 THEN [tous |-> all \o page, offset |-> off, page_pc |-> "returned"]
                 ELSE [tous |-> all \o page, offset |-> off + lim, page_pc |-> "loop"]

\* one turn of `while True`: the page fetched, then break or offset += limit;
\* an exception of the fetch leaves the function
page_loop_body(outcome, all, off, lim) ==
    IF outcome[1] = "raise" THEN [tous |-> all, offset |-> off, page_pc |-> "raised"]
    ELSE LET page == outcome[2]
         IN IF page = <<>>
            THEN [tous |-> all, offset |-> off, page_pc |-> "returned"]
            ELSE IF Len(page) < lim
                 THEN [tous |-> all \o page, offset |-> off, page_pc |-> "returned"]
                 ELSE [tous |-> all \o page, offset |-> off + lim, page_pc |-> "loop"]

InitPages ==
    /\ version = None
    /\ current_version = None
    /\ versions = <<>>
    /\ called = {}
    /\ r_tuple = None
    /\ r_gw_tuple = None
    /\ r_filtered = <<>>
    /\ r_max = None
    /\ r_gw_max = None
    /\ CatalogIdle
    /\ api_status = <<>>
    /\ excel_writable = TRUE
    /\ pc = "idle"
    /\ frames = <<>>
    /\ log = <<>>
    /\ jeux_de_donnees = NotCalled
    /\ excel = NotCalled
    /\ server_empty = {}
    /\ gateway_details = <<>>
    /\ lister \in {"lister_gateways", "lister_switches_stack"}
    /\ records \in {[k \in 1..n |-> k] : n \in 0..MaxRecords}
    /\ limit \in 0..MaxLimit
    /\ offset = 0
    /\ tous = <<>>
    /\ requested = <<>>
    /\ page_pc = "loop"

\* one page request, answered with any status
PageTurn(name) ==
    /\ lister = name
    /\ page_pc = "loop"
    /\ \E status \in {HttpOk, HttpError} :
          LET after == page_loop_body(
                           _recuperer_page(status, records, offset, limit),
                           tous, offset, limit)
          IN /\ requested' = Append(requested, <<offset, status>>)
             /\ tous' = after.tous
             /\ offset' = after.offset
             /\ page_pc' = after.page_pc
    /\ UNCHANGED <<comparatorVars, called, catalogVars, api_status, excel_writable,
                   pc, frames, log, jeux_de_donnees, excel, server_empty,
                   gateway_details,
                   lister, records, limit>>

ListerGatewaysPage == PageTurn("lister_gateways")

ListerSwitchesStackPage == PageTurn("lister_switches_stack")

NextPages == ListerGatewaysPage \/ ListerSwitchesStackPage

SpecPages == InitPages /\ [][NextPages]_vars

\* the loop keeps running until it is left
SpecPagesFair == SpecPages /\ WF_vars(NextPages)

\* the page the server holds at the k-th request
PageAt(k) == server_slice(records, requested[k][1], limit)

\* the requests went to offsets 0, limit, 2*limit, ...; every page before
\* the last was full, and a loop left without exception was left at a page
\* that is empty or shorter than limit
RequestsInSteps ==
    /\ \A k \in 1..Len(requested) : requested[k][1] = (k - 1) * limit
    /\ \A k \in 1..(Len(requested) - 1) :
          PageAt(k) # <<>> /\ Len(PageAt(k)) = limit
    /\ page_pc = "returned" =>
          LET last == PageAt(Len(requested))
          IN last = <<>> \/ Len(last) < limit

\* C24, as stated: the loop ends for every limit >= 1 and never ends with
\* limit = 0 over a list that holds a record.
C24_AsClaimed ==
    /\ limit >= 1 => <>(page_pc # "loop")
    /\ [](RequestsInSteps)
    /\ []((limit = 0 /\ records # <<>>) => page_pc = "loop")

\* C24: the page loop ends for every limit >= 0, after requests at offsets
\* 0, limit, 2*limit, ..., at the first page that is empty or shorter than
\* limit; with limit = 0 the first page is empty, so the loop ends after one
\* request with nothing accumulated.
C24_PageLoopEnds ==
    /\ <>(page_pc # "loop")
    /\ [](RequestsInSteps)
    /\ []((limit = 0 /\ page_pc = "returned") =>
             (Len(requested) = 1 /\ tous = <<>>))

\* limit = 0 over a list of records: the loop has ended after one request
C24_Witness ==
    /\ limit = 0
    /\ Len(records) = MaxRecords
    /\ page_pc = "returned"
    /\ Len(requested) = 1

AllAnswered == \A k \in 1..Len(requested) : requested[k][2] = HttpOk

\* C25: with limit >= 1, a loop that ends without exception has accumulated
\* the server's records, each once and in the server's order; a status other
\* than 200 on any page ends the listing with ValueError, and no list is
\* returned.
C25_CompleteOrRaised ==
    /\ (page_pc = "returned" /\ limit >= 1) => tous = records
    /\ page_pc = "returned" => AllAnswered
    /\ ~AllAnswered => page_pc = "raised"

\* four records in pages of two: a third request finds the empty page
C25_Witness ==
    /\ page_pc = "returned"
    /\ limit = 2
    /\ Len(records) = 4
    /\ Len(requested) = 3
    /\ tous = records

---------------------------------------------------------------------------
(* enrichir_gateways_recommended: one detail call per gateway *)

MaxGateways == 2

\* a gateway as lister_gateways lists it, with the serial the server gave
GatewayRow(serial) ==
    [serial |-> serial, macaddr |-> T_mac, name |-> T_name, model |-> M_A9004,
     firmware_version |-> V_gw_9]

\* a gateway of a list in which no record has a serial
GatewayRowNoSerial ==
    [macaddr |-> T_mac, name |-> T_name, model |-> M_A9004,
     firmware_version |-> V_gw_9]

GatewaySerials == {T_G1, None, V_empty}

GatewayFrames ==
    UNION {[1..n -> {GatewayRow(serial) : serial \in GatewaySerials}]
              \cup [1..n -> {GatewayRowNoSerial}] : n \in 0..MaxGateways}

DetailResponsePool ==
    {DetailException,
     DetailResponse(HttpNotFound, EmptyText),
     DetailResponse(HttpError, EmptyText),
     DetailResponse(HttpError, JDetails(JStr(V_gw_9_build)))}
        \cup {DetailResponse(HttpOk, body) :
                 body \in {EmptyText, InvalidJson, JDetails(JAbsent),
                           JDetails(JNull), JDetails(JStr(V_empty)),
                           JDetails(JStr(V_gw_9_build)), JList(<<>>),
                           JList(<<JStr(V_gw_9_build)>>)}}

\* collect_datasets about to run line 205; records holds the gateways as the
\* server listed them, which is what df_gateways holds
InitEnrich ==
    /\ version = None
    /\ current_version = None
    /\ versions = <<>>
    /\ called = {}
    /\ r_tuple = None
    /\ r_gw_tuple = None
    /\ r_filtered = <<>>
    /\ r_max = None
    /\ r_gw_max = None
    /\ CatalogIdle
    /\ api_status = <<>>
    /\ excel_writable = TRUE
    /\ pc = "enrichir_gateways_recommended"
    /\ records \in GatewayFrames
    /\ frames = ("df_gateways" :> records)
    /\ gateway_details \in [1..Len(records) -> DetailResponsePool]
    /\ log = <<>>
    /\ jeux_de_donnees = NotCalled
    /\ excel = NotCalled
    /\ server_empty = {}
    /\ lister = ""
    /\ limit = 0
    /\ offset = 0
    /\ tous = <<>>
    /\ requested = <<>>
    /\ page_pc = "idle"

NextEnrich == EnrichirGatewaysRecommended

SpecEnrich == InitEnrich /\ [][NextEnrich]_vars

EnrichDone == pc # "enrichir_gateways_recommended"

\* the outcomes of a detail call: an exception, a status other than 200, or
\* a 200 whose body is empty, is not JSON, or is a JSON object
DetailOutcome(response) == response.raises \/ response.body[1] # "list"

\* the detail call for row k is made, answers 200 and its object carries a
\* non-empty recommended_version
AnsweredRecommended(k) ==
    /\ ~Falsy(row_get_serial(records[k]))
    /\ ~gateway_details[k].raises
    /\ gateway_details[k].status_code = HttpOk
    /\ gateway_details[k].body[1] = "dict"
    /\ gateway_details[k].body[2][1] = "str"
    /\ gateway_details[k].body[2][2] # <<>>

=============================================================================
